---- MODULE Spec2Model ----
(***************************************************************************)
(* Dependency planner (task_dependencies.py) and task executor             *)
(* (task_executor.py) of claude_code_mcp.                                  *)
(*                                                                         *)
(* Task ids are strings in the program; the model names them 1, 2, 3.      *)
(* The specifications share the variables:                                 *)
(*   SpecPlan      the TaskDependencyManager object driven through its     *)
(*                 public methods;                                         *)
(*   SpecRounds    create_execution_plan over lists of four tasks;         *)
(*   Spec          one TaskExecutor.execute_task call, coroutine by        *)
(*                 coroutine, every write succeeding;                      *)
(*   SpecStore     the same call with one write of the snapshot raising;   *)
(*   SpecStatus    get_task_status beside executors that write;            *)
(*   SpecUpdate    _update_subtask_status on the records of two tasks;     *)
(*   SpecWrites    the siblings of a parallel stage saving at once, each   *)
(*                 write_file job on its own pool thread;                  *)
(*   SpecHandlers  handle_task_execution and handle_task_status.           *)
(***************************************************************************)
EXTENDS Integers, Sequences, FiniteSets, TLC

\* ------------------------------------------------------------------ bounds
\* add_task calls made on one graph, and dependencies one call may name
MaxTasks == 3
MaxDeps == 2

\* execute_task inputs: dependencies the subtasks declare in all, and
\* subtasks that are irregular (repeat an earlier id, or have no command)
MaxEdges == 1
MaxIrregular == 1

\* the task ids in play ("task-1", "task-2", "task-3" of the module's own tests)
TaskIds == {1, 2, 3}

\* an execute_task input has at most as many subtasks as there are ids
MaxSubtasks == Cardinality(TaskIds)
Modes == {"sequential", "parallel"}
DepSets == {D \in SUBSET TaskIds : Cardinality(D) <= MaxDeps}

\* ------------------------------------------------------------ generic helpers
RECURSIVE Perms(_)
\* every list that enumerates the finite set S once (an iteration order of S)
Perms(S) ==
  IF S = {} THEN {<<>>}
  ELSE UNION {{<<x>> \o p : p \in Perms(S \ {x})} : x \in S}

Range(s) == {s[i] : i \in DOMAIN s}

RECURSIVE Flatten(_)
Flatten(ss) == IF ss = <<>> THEN <<>> ELSE Head(ss) \o Flatten(Tail(ss))

\* ------------------------------------------------- networkx.DiGraph, as used
\* nodes, their execution_mode attribute ("none": the node carries no such
\* attribute) and the directed edges <<dependency, dependent>>
EmptyGraph == [nodes |-> {}, mode |-> <<>>, edges |-> {}]

\* add_node replacing an existing node: the edges into it are dropped
AddNode_replacing_node(G, n, m) ==
  [nodes |-> G.nodes \cup {n},
   mode  |-> [x \in G.nodes \cup {n} |-> IF x = n THEN m ELSE G.mode[x]],
   edges |-> {e \in G.edges : e[2] # n}]

\* DiGraph.add_node(n, execution_mode=m): creates the node or updates its attribute
AddNode(G, n, m) ==
  [G EXCEPT !.nodes = @ \cup {n},
            !.mode = [x \in G.nodes \cup {n} |-> IF x = n THEN m ELSE G.mode[x]]]

\* DiGraph.add_edge(u, v): both end points are added, attribute-less, when absent
AddEdge(G, u, v) ==
  [nodes |-> G.nodes \cup {u, v},
   mode  |-> [x \in G.nodes \cup {u, v} |-> IF x \in G.nodes THEN G.mode[x] ELSE "none"],
   edges |-> G.edges \cup {<<u, v>>}]

RECURSIVE AddEdges(_, _, _)
AddEdges(G, deps, v) ==
  IF deps = {} THEN G
  ELSE LET d == CHOOSE x \in deps : TRUE
       IN AddEdges(AddEdge(G, d, v), deps \ {d}, v)

Predecessors(G, n) == {u \in G.nodes : <<u, n>> \in G.edges}
Successors(G, S) == {v \in G.nodes : \E u \in S : <<u, v>> \in G.edges}

RECURSIVE ReachableFrom(_, _, _)
\* nodes reached from the set `frontier` by one or more edges
ReachableFrom(G, frontier, seen) ==
  LET next == Successors(G, frontier) \ seen
  IN IF next = {} THEN seen ELSE ReachableFrom(G, next, seen \cup next)

\* find_cycle as a traversal that never follows an edge from a node to itself
FindCycle_ignoring_self_loops(G) ==
  LET H == [G EXCEPT !.edges = {e \in @ : e[1] # e[2]}]
  IN \E n \in H.nodes : n \in ReachableFrom(H, {n}, {})

\* nx.find_cycle(G) returns (rather than raising NetworkXNoCycle): some node
\* reaches itself, a self-loop included
FindCycle(G) == \E n \in G.nodes : n \in ReachableFrom(G, {n}, {})

\* ------------------------------------------------------ TaskDependencyManager
\* add_task(task_id, dependencies, execution_mode)
AddTask(G, task_id, dependencies, execution_mode) ==
  AddEdges(AddNode(G, task_id, execution_mode), dependencies, task_id)

CycleError == [kind |-> "cycle"]
MissingError(node, pred) == [kind |-> "missing", task |-> node, dep |-> pred]

RECURSIVE ErrorList(_)
ErrorList(E) ==
  IF E = {} THEN <<>>
  ELSE LET e == CHOOSE x \in E : TRUE IN <<e>> \o ErrorList(E \ {e})

\* the pairs the second loop of validate_dependencies reports: a predecessor
\* of a node that is not itself a node of the graph
MissingPairs(G) ==
  {<<n, p>> \in G.nodes \X TaskIds : p \in Predecessors(G, n) /\ p \notin G.nodes}

\* validate_dependencies without the cycle check of lines 79-85
ValidateDependencies_without_cycle_check(G) ==
  ErrorList({MissingError(np[1], np[2]) : np \in MissingPairs(G)})

\* validate_dependencies(): the list of error messages
ValidateDependencies(G) ==
  (IF FindCycle(G) THEN <<CycleError>> ELSE <<>>)
  \o ErrorList({MissingError(np[1], np[2]) : np \in MissingPairs(G)})

\* dependency_graph.nodes[task_id].get("execution_mode", "sequential")
ExecutionModeOf(G, task_id) ==
  IF G.mode[task_id] = "none" THEN "sequential" ELSE G.mode[task_id]

\* ready_tasks without the test of line 133: every remaining task is ready
ReadyTasks_all_remaining(G, remaining) == remaining

\* ready_tasks of one round: no predecessor is still in remaining_tasks
ReadyTasks(G, remaining) ==
  {t \in remaining : Predecessors(G, t) \cap remaining = {}}

Singletons(p) == [i \in 1..Len(p) |-> <<p[i]>>]

\* a round appending its parallel stage before its single-task stages
RoundStages_parallel_first(p, q) == (IF q = <<>> THEN <<>> ELSE <<q>>) \o Singletons(p)

\* a round putting all its ready tasks, sequential ones included, in one stage
RoundStages_one_stage(p, q) == IF p \o q = <<>> THEN <<>> ELSE <<p \o q>>

\* the stages one round appends: every sequential ready task alone, in the
\* iteration order p of the round, then the parallel ready tasks (order q) as
\* one stage when there are any
RoundStages(p, q) == Singletons(p) \o (IF q = <<>> THEN <<>> ELSE <<q>>)

PlanningError == [kind |-> "raised", errors |-> <<[kind |-> "no_ready"]>>]

RECURSIVE PlanLoop(_, _, _)
\* the while loop of create_execution_plan; remaining_tasks is a Python set,
\* so each round's iteration order is any order: the result is the set of
\* outcomes the loop can produce
PlanLoop(G, remaining, execution_plan) ==
  IF remaining = {} THEN {[kind |-> "plan", stages |-> execution_plan]}
  ELSE LET ready == ReadyTasks(G, remaining)
           sequential_tasks == {t \in ready : ExecutionModeOf(G, t) # "parallel"}
           parallel_tasks == {t \in ready : ExecutionModeOf(G, t) = "parallel"}
       IN IF ready = {} THEN {PlanningError}
          ELSE UNION {PlanLoop(G, remaining \ ready,
                               execution_plan \o RoundStages(p, q)) :
                        <<p, q>> \in Perms(sequential_tasks) \X Perms(parallel_tasks)}

\* create_execution_plan after its graph is built: validate, then plan
PlanOutcomes(G) ==
  LET errors == ValidateDependencies(G)
  IN IF errors # <<>> THEN {[kind |-> "raised", errors |-> errors]}
     ELSE PlanLoop(G, G.nodes, <<>>)

\* no create_execution_plan result, no validate_dependencies result, for the
\* graph as it stands
NoResult == [kind |-> "none"]
NotValidated == <<[kind |-> "not_validated"]>>

\* the <<dependency, id>> pairs a descriptor list declares
DeclaredDeps(tasks) ==
  UNION {{<<d, tasks[i].id>> : d \in tasks[i].dependencies} : i \in DOMAIN tasks}

\* ------------------------------------------------------- TaskExecutor helpers
\* the task id of the one execute_task call (task_data["id"])
TaskId == "task"

\* task_status as built at lines 119-127: one PENDING entry per subtask, in
\* list order; output and error say whether the entry carries that key, the
\* record's error whether line 168 has set task_status["error"]
InitialStatus(task_data) ==
  [status |-> "running",
   subtasks |-> [i \in 1..Len(task_data.subtasks) |->
                   [id |-> task_data.subtasks[i].id, status |-> "pending",
                    output |-> FALSE, error |-> FALSE]],
   executionMode |-> task_data.executionMode,
   endTime |-> FALSE,
   error |-> FALSE]

\* the entry the loop of _update_subtask_status stops at: the first with that id
FirstEntry(entries, subtask_id) ==
  LET hits == {i \in DOMAIN entries : entries[i].id = subtask_id}
  IN IF hits = {} THEN 0 ELSE CHOOSE i \in hits : \A j \in hits : i <= j

\* _update_subtask_status without the id test of line 377: every entry is set
UpdateSubtaskStatus_every_entry(active, task_id, subtask_id, status, output, error) ==
  IF task_id \notin DOMAIN active THEN active
  ELSE [active EXCEPT ![task_id].subtasks =
          [i \in DOMAIN @ |-> [@[i] EXCEPT !.status = status,
                                           !.output = @ \/ output,
                                           !.error = @ \/ error]]]

\* _update_subtask_status(task_id, subtask_id, status, output, error) on the
\* map of active records
UpdateSubtaskStatus(active, task_id, subtask_id, status, output, error) ==
  IF task_id \notin DOMAIN active THEN active
  ELSE LET i == FirstEntry(active[task_id].subtasks, subtask_id)
       IN IF i = 0 THEN active
          ELSE [active EXCEPT ![task_id].subtasks[i] =
                  [@ EXCEPT !.status = status,
                            !.output = @ \/ output,
                            !.error = @ \/ error]]

\* ---- the snapshot file <task id>.json
\* json.dump of a str (TaskStatus and ExecutionMode members are str) and of None
JsonString(s) == <<"string", s>>
JsonNull == <<"null">>
JsonAbsent == <<"absent">>

\* json.dump(status, f), line 403: every key the dict holds is written; an
\* entry holds "output" / "error" only once an update has set it
JsonDump(status) ==
  [status |-> JsonString(status.status),
   subtasks |-> [i \in DOMAIN status.subtasks |->
                   [id |-> JsonString(status.subtasks[i].id),
                    status |-> JsonString(status.subtasks[i].status),
                    output |-> IF status.subtasks[i].output
                               THEN JsonString("output") ELSE JsonAbsent,
                    error |-> IF status.subtasks[i].error
                              THEN JsonString("error") ELSE JsonAbsent]],
   executionMode |-> JsonString(status.executionMode),
   endTime |-> IF status.endTime THEN JsonString("endTime") ELSE JsonNull,
   error |-> IF status.error THEN JsonString("error") ELSE JsonAbsent]

\* json.load(f), line 430
JsonLoad(doc) ==
  [status |-> doc.status[2],
   subtasks |-> [i \in DOMAIN doc.subtasks |->
                   [id |-> doc.subtasks[i].id[2],
                    status |-> doc.subtasks[i].status[2],
                    output |-> doc.subtasks[i].output # JsonAbsent,
                    error |-> doc.subtasks[i].error # JsonAbsent]],
   executionMode |-> doc.executionMode[2],
   endTime |-> doc.endTime # JsonNull,
   error |-> doc.error # JsonAbsent]

\* a file that write_file has written and closed
WrittenFile(status) == <<"json", JsonDump(status)>>

\* a file opened with mode 'w' (line 402) and not yet written: it is empty
TruncatedFile == <<"truncated">>

\* _save_task_status(task_id, status), lines 388-405, once write_file returned
SaveTaskStatus(files, task_id, status) ==
  [t \in DOMAIN files \cup {task_id} |->
     IF t = task_id THEN WrittenFile(status) ELSE files[t]]

\* get_task_status has not been called
NoReply == [kind |-> "none"]

\* what get_task_status returns when it finds nothing
None == [kind |-> "None"]

\* get_task_status checking the file before the active records
GetTaskStatus_file_first(active, files, task_id) ==
  IF task_id \in DOMAIN files /\ files[task_id][1] = "json"
  THEN JsonLoad(files[task_id][2])
  ELSE IF task_id \in DOMAIN active THEN active[task_id] ELSE None

\* get_task_status(task_id), lines 417-435, on an executor whose active
\* records are `active`, over the files `files`: the active record; else the
\* file's content if json.load accepts it, None if it raises (lines 432-433);
\* else None
GetTaskStatus(active, files, task_id) ==
  IF task_id \in DOMAIN active THEN active[task_id]
  ELSE IF task_id \in DOMAIN files
       THEN IF files[task_id][1] = "json" THEN JsonLoad(files[task_id][2]) ELSE None
       ELSE None

\* subtask_map.get(subtask_id) of _execute_with_dependencies: the dict keeps
\* the last descriptor of each id; 0 when the id has none
SubtaskMap(subtasks, subtask_id) ==
  LET hits == {i \in DOMAIN subtasks : subtasks[i].id = subtask_id}
  IN IF hits = {} THEN 0 ELSE CHOOSE i \in hits : \A j \in hits : j <= i

RECURSIVE BuildGraph(_, _)
\* lines 109-117 of create_execution_plan: clear, then add_task per descriptor
BuildGraph(G, tasks) ==
  IF tasks = <<>> THEN G
  ELSE BuildGraph(AddTask(G, Head(tasks).id, Head(tasks).dependencies,
                          Head(tasks).executionMode),
                  Tail(tasks))

RECURSIVE SumCard(_)
SumCard(f) == IF f = <<>> THEN 0 ELSE Cardinality(Head(f)) + SumCard(Tail(f))

\* id lists up to renaming: a position repeats an earlier id or takes the next
\* fresh one
IdLists(n) ==
  {ids \in [1..n -> TaskIds] :
     \A i \in 1..n : \A v \in 1..(ids[i] - 1) : \E j \in 1..(i - 1) : ids[j] = v}

DepLists(n) == {d \in [1..n -> SUBSET TaskIds] : SumCard(d) <= MaxEdges}

\* positions that repeat an earlier id, plus positions without a command
Irregular(ids, cmds) ==
  (Len(ids) - Cardinality(Range(ids))) + Cardinality({i \in DOMAIN cmds : ~cmds[i]})

\* the task descriptors execute_task is called with
TaskInputs ==
  UNION {
    {[subtasks |-> [i \in 1..n |-> [id |-> ids[i], dependencies |-> deps[i],
                                    executionMode |-> modes[i], command |-> cmds[i]]],
      executionMode |-> top] :
       <<ids, cmds>> \in {ic \in IdLists(n) \X [1..n -> BOOLEAN] :
                          Irregular(ic[1], ic[2]) <= MaxIrregular},
       deps \in DepLists(n), modes \in [1..n -> Modes], top \in Modes}
    : n \in 1..MaxSubtasks}

\* ---------------------------------------------------------------- variables
VARIABLES
  dependency_graph,  \* TaskDependencyManager.dependency_graph
  mgr_pc,            \* "idle", or "adding" inside create_execution_plan's loop
  given_ids,         \* ids of the descriptors handed to add_task since the last clear
  given_deps,        \* <<dependency, id>> pairs those descriptors declared
  nAdded,            \* add_task calls since the last clear
  errors,            \* what validate_dependencies returned for the graph as it
                     \* stands (NotValidated once the graph has changed)
  result,            \* what create_execution_plan returned or raised for the
                     \* graph as it stands (NoResult once the graph has changed)
  task_data,         \* the argument of execute_task
  have_manager,      \* self.dependency_manager is not None and HAVE_NETWORKX
  active_tasks,      \* TaskExecutor.active_tasks: task id -> task_status
  pc,                \* where the execute_task coroutine stands
  path,              \* "none", "deps", "sequential" or "parallel": the strategy running
  stage,             \* index of the current group of the execution plan
  idx,               \* index of the loop over a group or over subtasks
  wrapper,           \* per subtask position, its _execute_subtask_wrapper task
  invoked,           \* per subtask position, _execute_subtask calls so far
  spawned,           \* per subtask position, processes created so far
  disk,              \* storage_dir: task id -> content of <task id>.json
  save_fault,        \* "none": every write succeeds; "armed": one write of
                     \* write_file may still raise; "spent": it has raised
  status_reply,      \* what the last get_task_status call returned
  writes,            \* the write_file jobs in the thread pool (run_in_executor),
                     \* per coroutine that awaits one
  seen_done          \* subtask positions a reader of the snapshot file has seen
                     \* COMPLETED or FAILED

mvars == <<dependency_graph, mgr_pc, given_ids, given_deps, nAdded, errors, result>>
evars == <<task_data, have_manager, active_tasks, pc, path, stage, idx, wrapper,
           invoked, spawned, disk, save_fault, status_reply, writes, seen_done>>
vars == <<mvars, evars>>

\* a fresh TaskDependencyManager
InitManager ==
  /\ dependency_graph = EmptyGraph
  /\ mgr_pc = "idle"
  /\ given_ids = {}
  /\ given_deps = {}
  /\ nAdded = 0
  /\ errors = NotValidated
  /\ result = NoResult

\* a fresh TaskExecutor about to be handed task_data
InitExecutor ==
  /\ task_data \in TaskInputs
  /\ have_manager \in BOOLEAN
  /\ active_tasks = <<>>
  /\ pc = "start"
  /\ path = "none"
  /\ stage = 0
  /\ idx = 0
  /\ wrapper = [i \in 1..Len(task_data.subtasks) |-> "none"]
  /\ invoked = [i \in 1..Len(task_data.subtasks) |-> 0]
  /\ spawned = [i \in 1..Len(task_data.subtasks) |-> 0]
  /\ disk = <<>>
  /\ save_fault = "none"
  /\ status_reply = NoReply
  /\ writes = <<>>
  /\ seen_done = {}

\* ------------------------------------------- SpecPlan: the manager on its own
InitPlan ==
  /\ InitManager
  /\ task_data = [subtasks |-> <<>>, executionMode |-> "sequential"]
  /\ have_manager = TRUE
  /\ active_tasks = <<>>
  /\ pc = "unused"
  /\ path = "none"
  /\ stage = 0
  /\ idx = 0
  /\ wrapper = <<>>
  /\ invoked = <<>>
  /\ spawned = <<>>
  /\ disk = <<>>
  /\ save_fault = "none"
  /\ status_reply = NoReply
  /\ writes = <<>>
  /\ seen_done = {}

\* one add_task call with arguments drawn from the bounded sets
DoAddTask ==
  /\ nAdded < MaxTasks
  /\ \E id \in TaskIds, deps \in DepSets, m \in Modes :
       /\ dependency_graph' = AddTask(dependency_graph, id, deps, m)
       /\ given_ids' = given_ids \cup {id}
       /\ given_deps' = given_deps \cup {<<d, id>> : d \in deps}
  /\ nAdded' = nAdded + 1
  /\ errors' = NotValidated
  /\ result' = NoResult

\* manager.add_task(...) called directly
add_task ==
  /\ mgr_pc = "idle"
  /\ DoAddTask
  /\ UNCHANGED <<mgr_pc, evars>>

\* validate_dependencies consuming the graph it walks
validate_dependencies_clearing_graph ==
  /\ mgr_pc = "idle"
  /\ errors' = ValidateDependencies(dependency_graph)
  /\ dependency_graph' = EmptyGraph
  /\ UNCHANGED <<mgr_pc, given_ids, given_deps, nAdded, result, evars>>

\* manager.validate_dependencies() called directly
validate_dependencies ==
  /\ mgr_pc = "idle"
  /\ errors' = ValidateDependencies(dependency_graph)
  /\ UNCHANGED <<dependency_graph, mgr_pc, given_ids, given_deps, nAdded, result, evars>>

\* create_execution_plan(tasks), line 109: the graph is cleared
cep_clear ==
  /\ mgr_pc = "idle"
  /\ mgr_pc' = "adding"
  /\ dependency_graph' = EmptyGraph
  /\ given_ids' = {}
  /\ given_deps' = {}
  /\ nAdded' = 0
  /\ errors' = NotValidated
  /\ result' = NoResult
  /\ UNCHANGED evars

\* lines 112-117: the next descriptor of tasks is added
cep_add ==
  /\ mgr_pc = "adding"
  /\ DoAddTask
  /\ UNCHANGED <<mgr_pc, evars>>

\* lines 119-162: tasks is exhausted; validate, raise or plan, return
cep_plan ==
  /\ mgr_pc = "adding"
  /\ mgr_pc' = "idle"
  /\ errors' = ValidateDependencies(dependency_graph)
  /\ result' \in PlanOutcomes(dependency_graph)
  /\ UNCHANGED <<dependency_graph, given_ids, given_deps, nAdded, evars>>

NextPlan == add_task \/ validate_dependencies \/ cep_clear \/ cep_add \/ cep_plan

SpecPlan == InitPlan /\ [][NextPlan]_vars

\* ------------- SpecRounds: create_execution_plan over lists of four tasks
\* the ids of the descriptors, in list order (the ids of the module's Test 4)
RoundIds == {1, 2, 3, 4}

\* dependencies a descriptor names: any ids, its own and absent ones included
RoundDepSets == {d \in SUBSET RoundIds : Cardinality(d) <= MaxDeps}

\* lines 112-117: the next descriptor of tasks, whose id is its position
cep_add_next ==
  /\ mgr_pc = "adding"
  /\ nAdded + 1 \in RoundIds
  /\ \E deps \in RoundDepSets, m \in Modes :
       /\ dependency_graph' = AddTask(dependency_graph, nAdded + 1, deps, m)
       /\ given_ids' = given_ids \cup {nAdded + 1}
       /\ given_deps' = given_deps \cup {<<d, nAdded + 1>> : d \in deps}
  /\ nAdded' = nAdded + 1
  /\ errors' = NotValidated
  /\ result' = NoResult
  /\ UNCHANGED <<mgr_pc, evars>>

InitRounds == InitPlan

NextRounds == cep_clear \/ cep_add_next \/ cep_plan

SpecRounds == InitRounds /\ [][NextRounds]_vars

\* --------------------------------------------- Spec: one execute_task call
Subtasks == task_data.subtasks
NumSubtasks == Len(Subtasks)
Entries == IF TaskId \in DOMAIN active_tasks THEN active_tasks[TaskId].subtasks ELSE <<>>

\* self._update_subtask_status(task_id, id of position i, ...), saved before
\* the caller goes on
SetStatus(i, status, output, error) ==
  /\ active_tasks' = UpdateSubtaskStatus(active_tasks, TaskId, Subtasks[i].id,
                                         status, output, error)
  /\ disk' = SaveTaskStatus(disk, TaskId, active_tasks'[TaskId])

\* the command looked at only after the process has been created
RaisesValueError_after_spawn(i) ==
  /\ ~Subtasks[i].command
  /\ invoked' = [invoked EXCEPT ![i] = @ + 1]
  /\ spawned' = [spawned EXCEPT ![i] = @ + 1]

\* _execute_subtask, lines 332-334: no command, ValueError before any process
RaisesValueError(i) ==
  /\ ~Subtasks[i].command
  /\ invoked' = [invoked EXCEPT ![i] = @ + 1]
  /\ UNCHANGED spawned

\* _execute_subtask, lines 337-343: the process is created and awaited
SpawnsProcess(i) ==
  /\ Subtasks[i].command
  /\ invoked' = [invoked EXCEPT ![i] = @ + 1]
  /\ spawned' = [spawned EXCEPT ![i] = @ + 1]

\* the except branch logging the error and running nothing
FallBack_runs_nothing ==
  /\ path' = task_data.executionMode
  /\ pc' = "finish"
  /\ idx' = 1

\* the except branch running _execute_sequential whatever the task's mode
FallBack_always_sequential ==
  /\ path' = "sequential"
  /\ pc' = "seq_loop"
  /\ idx' = 1

\* the except branch at line 150, or the else branch at line 157: the task's
\* own executionMode picks _execute_parallel or _execute_sequential
FallBack ==
  /\ path' = task_data.executionMode
  /\ pc' = IF task_data.executionMode = "parallel" THEN "launch" ELSE "seq_loop"
  /\ idx' = 1

\* execute_task, lines 114-131: the record is created, registered and saved
execute_task ==
  /\ pc = "start"
  /\ active_tasks' = [t \in {TaskId} |-> InitialStatus(task_data)]
  /\ disk' = SaveTaskStatus(disk, TaskId, active_tasks'[TaskId])
  /\ pc' = "strategy"
  /\ UNCHANGED <<mvars, task_data, have_manager, writes, seen_done, save_fault,
                 status_reply, path, stage, idx, wrapper,
                 invoked, spawned>>

\* what create_execution_plan(subtasks) does to the executor's manager
CallCreateExecutionPlan(outcome) ==
  LET G == BuildGraph(EmptyGraph, Subtasks)
  IN /\ outcome \in PlanOutcomes(G)
     /\ dependency_graph' = G
     /\ given_ids' = {Subtasks[i].id : i \in 1..NumSubtasks}
     /\ given_deps' = DeclaredDeps(Subtasks)
     /\ nAdded' = NumSubtasks
     /\ errors' = ValidateDependencies(G)
     /\ result' = outcome
     /\ UNCHANGED mgr_pc

\* lines 135-149: a plan is returned and _execute_with_dependencies entered
plan_returned ==
  /\ pc = "strategy"
  /\ have_manager
  /\ \E outcome \in PlanOutcomes(BuildGraph(EmptyGraph, Subtasks)) :
       /\ outcome.kind = "plan"
       /\ CallCreateExecutionPlan(outcome)
  /\ path' = "deps"
  /\ pc' = "group"
  /\ stage' = 1
  /\ UNCHANGED <<task_data, have_manager, writes, seen_done, save_fault, status_reply,
                 active_tasks, disk, idx, wrapper, invoked, spawned>>

\* lines 148, 150-156: create_execution_plan raised; fall back
plan_raised ==
  /\ pc = "strategy"
  /\ have_manager
  /\ \E outcome \in PlanOutcomes(BuildGraph(EmptyGraph, Subtasks)) :
       /\ outcome.kind = "raised"
       /\ CallCreateExecutionPlan(outcome)
  /\ FallBack
  /\ UNCHANGED <<task_data, have_manager, writes, seen_done, save_fault, status_reply,
                 active_tasks, disk, stage, wrapper, invoked, spawned>>

\* lines 157-162: no dependency manager
no_manager ==
  /\ pc = "strategy"
  /\ ~have_manager
  /\ FallBack
  /\ UNCHANGED <<mvars, task_data, have_manager, writes, seen_done, save_fault,
                 status_reply, active_tasks, disk, stage, wrapper,
                 invoked, spawned>>

\* ---- _execute_with_dependencies
Plan == result.stages
Group == Plan[stage]

\* line 251: the plan is exhausted, the method returns
deps_return ==
  /\ pc = "group"
  /\ stage > Len(Plan)
  /\ pc' = "finish"
  /\ UNCHANGED <<mvars, task_data, have_manager, writes, seen_done, save_fault,
                 status_reply, active_tasks, disk, path, stage, idx,
                 wrapper, invoked, spawned>>

\* lines 254-258: a single-member group whose id has no subtask is passed over
single_absent ==
  /\ pc = "group"
  /\ stage <= Len(Plan)
  /\ Len(Group) = 1
  /\ SubtaskMap(Subtasks, Group[1]) = 0
  /\ stage' = stage + 1
  /\ UNCHANGED <<mvars, task_data, have_manager, writes, seen_done, save_fault,
                 status_reply, active_tasks, disk, pc, path, idx,
                 wrapper, invoked, spawned>>

\* lines 254-259: a single-member group; its subtask is set RUNNING
single_running ==
  /\ pc = "group"
  /\ stage <= Len(Plan)
  /\ Len(Group) = 1
  /\ SubtaskMap(Subtasks, Group[1]) # 0
  /\ SetStatus(SubtaskMap(Subtasks, Group[1]), "running", FALSE, FALSE)
  /\ pc' = "single_exec"
  /\ UNCHANGED <<mvars, task_data, have_manager, writes, seen_done, save_fault,
                 status_reply, path, stage, idx, wrapper,
                 invoked, spawned>>

\* lines 261, 268-277: no command; FAILED is recorded and the error re-raised,
\* which execute_task catches at line 150
single_no_command ==
  /\ pc = "single_exec"
  /\ LET i == SubtaskMap(Subtasks, Group[1])
     IN /\ RaisesValueError(i)
        /\ SetStatus(i, "failed", FALSE, TRUE)
  /\ FallBack
  /\ UNCHANGED <<mvars, task_data, have_manager, writes, seen_done, save_fault,
                 status_reply, stage, wrapper>>

\* the process is created and the loop moves on without awaiting its exit
single_spawn_unawaited ==
  /\ pc = "single_exec"
  /\ SpawnsProcess(SubtaskMap(Subtasks, Group[1]))
  /\ stage' = stage + 1
  /\ pc' = "group"
  /\ UNCHANGED <<mvars, task_data, have_manager, writes, seen_done, save_fault,
                 status_reply, active_tasks, disk, path, idx, wrapper>>

\* line 261: the process is created
single_spawn ==
  /\ pc = "single_exec"
  /\ SpawnsProcess(SubtaskMap(Subtasks, Group[1]))
  /\ pc' = "single_wait"
  /\ UNCHANGED <<mvars, task_data, have_manager, writes, seen_done, save_fault,
                 status_reply, active_tasks, disk, path, stage, idx, wrapper>>

\* lines 261-267: exit code 0; COMPLETED, on to the next group
single_completed ==
  /\ pc = "single_wait"
  /\ SetStatus(SubtaskMap(Subtasks, Group[1]), "completed", TRUE, FALSE)
  /\ stage' = stage + 1
  /\ pc' = "group"
  /\ UNCHANGED <<mvars, task_data, have_manager, writes, seen_done, save_fault,
                 status_reply, path, idx, wrapper, invoked, spawned>>

\* lines 261, 268-277: non-zero exit code; FAILED, re-raised, caught at line 150
single_failed ==
  /\ pc = "single_wait"
  /\ SetStatus(SubtaskMap(Subtasks, Group[1]), "failed", FALSE, TRUE)
  /\ FallBack
  /\ UNCHANGED <<mvars, task_data, have_manager, writes, seen_done, save_fault,
                 status_reply, stage, wrapper, invoked, spawned>>

\* lines 278-280: a group of several members
group_enter ==
  /\ pc = "group"
  /\ stage <= Len(Plan)
  /\ Len(Group) > 1
  /\ pc' = "launch"
  /\ idx' = 1
  /\ UNCHANGED <<mvars, task_data, have_manager, writes, seen_done, save_fault,
                 status_reply, active_tasks, disk, path, stage, wrapper,
                 invoked, spawned>>

\* the subtask positions a launching loop walks: the members of the group
\* that have a subtask (lines 281-283), or every subtask (line 224)
LaunchList ==
  IF path = "deps"
  THEN LET members == SelectSeq(Group, LAMBDA id : SubtaskMap(Subtasks, id) # 0)
       IN [k \in 1..Len(members) |-> SubtaskMap(Subtasks, members[k])]
  ELSE [k \in 1..NumSubtasks |-> k]

\* lines 284 / 229: the first member is set RUNNING; the coroutine is
\* suspended on the save
launch_first ==
  /\ pc = "launch"
  /\ SetStatus(LaunchList[1], "running", FALSE, FALSE)
  /\ pc' = "launch_save"
  /\ UNCHANGED <<mvars, task_data, have_manager, writes, seen_done, save_fault,
                 status_reply, path, stage, idx, wrapper,
                 invoked, spawned>>

\* the launching loop awaiting the tasks created so far before the next one
launch_next_after_previous_done ==
  /\ pc = "launch_save"
  /\ idx < Len(LaunchList)
  /\ \A k \in 1..(idx - 1) : wrapper[LaunchList[k]] = "done"
  /\ wrapper' = [wrapper EXCEPT ![LaunchList[idx]] = "created"]
  /\ SetStatus(LaunchList[idx + 1], "running", FALSE, FALSE)
  /\ idx' = idx + 1
  /\ UNCHANGED <<mvars, task_data, have_manager, writes, seen_done, save_fault,
                 status_reply, pc, path, stage, invoked, spawned>>

\* lines 285-286, 281-284 / 232-233, 224-229: the save returned; the wrapper
\* task of the member is created and the next member set RUNNING
launch_next ==
  /\ pc = "launch_save"
  /\ idx < Len(LaunchList)
  /\ wrapper' = [wrapper EXCEPT ![LaunchList[idx]] = "created"]
  /\ SetStatus(LaunchList[idx + 1], "running", FALSE, FALSE)
  /\ idx' = idx + 1
  /\ UNCHANGED <<mvars, task_data, have_manager, writes, seen_done, save_fault,
                 status_reply, pc, path, stage, invoked, spawned>>

\* lines 285-289 / 232-236: the last wrapper task is created; gather
launch_last ==
  /\ pc = "launch_save"
  /\ idx = Len(LaunchList)
  /\ wrapper' = [wrapper EXCEPT ![LaunchList[idx]] = "created"]
  /\ pc' = "join"
  /\ UNCHANGED <<mvars, task_data, have_manager, writes, seen_done, save_fault,
                 status_reply, active_tasks, disk, path, stage, idx,
                 invoked, spawned>>

\* gather returning as soon as one task of the group is done
Joined_first_done == \E k \in 1..Len(LaunchList) : wrapper[LaunchList[k]] = "done"

\* asyncio.gather(*tasks) returns: every task launched by the loop is done
Joined == \A k \in 1..Len(LaunchList) : wrapper[LaunchList[k]] = "done"

\* line 289: every task of the group is done; next group
group_joined ==
  /\ pc = "join"
  /\ path = "deps"
  /\ Joined
  /\ wrapper' = [i \in 1..NumSubtasks |-> "none"]
  /\ stage' = stage + 1
  /\ pc' = "group"
  /\ UNCHANGED <<mvars, task_data, have_manager, writes, seen_done, save_fault,
                 status_reply, active_tasks, disk, path, idx, invoked, spawned>>

\* ---- _execute_subtask_wrapper, one asyncio task per launched subtask
\* lines 305-306, 313-320: no command; FAILED recorded, nothing raised
wrapper_no_command ==
  \E i \in 1..NumSubtasks :
    /\ wrapper[i] = "created"
    /\ RaisesValueError(i)
    /\ SetStatus(i, "failed", FALSE, TRUE)
    /\ wrapper' = [wrapper EXCEPT ![i] = "saving"]
    /\ UNCHANGED <<mvars, task_data, have_manager, writes, seen_done, save_fault,
                   status_reply, pc, path, stage, idx>>

\* line 306: the process is created
wrapper_spawn ==
  \E i \in 1..NumSubtasks :
    /\ wrapper[i] = "created"
    /\ SpawnsProcess(i)
    /\ wrapper' = [wrapper EXCEPT ![i] = "waiting"]
    /\ UNCHANGED <<mvars, task_data, have_manager, writes, seen_done, save_fault,
                   status_reply, active_tasks, disk, pc, path, stage, idx>>

\* lines 306-312: exit code 0
wrapper_completed ==
  \E i \in 1..NumSubtasks :
    /\ wrapper[i] = "waiting"
    /\ SetStatus(i, "completed", TRUE, FALSE)
    /\ wrapper' = [wrapper EXCEPT ![i] = "saving"]
    /\ UNCHANGED <<mvars, task_data, have_manager, writes, seen_done, save_fault,
                   status_reply, pc, path, stage, idx, invoked, spawned>>

\* a failing member cancelling the tasks of its siblings
wrapper_failed_cancels_siblings ==
  \E i \in 1..NumSubtasks :
    /\ wrapper[i] = "waiting"
    /\ SetStatus(i, "failed", FALSE, TRUE)
    /\ wrapper' = [j \in 1..NumSubtasks |->
                     IF j = i THEN "saving"
                     ELSE IF wrapper[j] = "none" THEN "none" ELSE "done"]
    /\ UNCHANGED <<mvars, task_data, have_manager, writes, seen_done, save_fault,
                   status_reply, pc, path, stage, idx, invoked, spawned>>

\* the wrapper swallowing the failure without recording it
wrapper_failed_unrecorded ==
  \E i \in 1..NumSubtasks :
    /\ wrapper[i] = "waiting"
    /\ wrapper' = [wrapper EXCEPT ![i] = "saving"]
    /\ UNCHANGED <<mvars, task_data, have_manager, writes, seen_done, save_fault,
                   status_reply, active_tasks, disk, pc, path, stage, idx, invoked,
                   spawned>>

\* lines 306, 313-320: non-zero exit code
wrapper_failed ==
  \E i \in 1..NumSubtasks :
    /\ wrapper[i] = "waiting"
    /\ SetStatus(i, "failed", FALSE, TRUE)
    /\ wrapper' = [wrapper EXCEPT ![i] = "saving"]
    /\ UNCHANGED <<mvars, task_data, have_manager, writes, seen_done, save_fault,
                   status_reply, pc, path, stage, idx, invoked, spawned>>

\* the save of the wrapper's status update returned; the task is done
wrapper_return ==
  \E i \in 1..NumSubtasks :
    /\ wrapper[i] = "saving"
    /\ wrapper' = [wrapper EXCEPT ![i] = "done"]
    /\ UNCHANGED <<mvars, task_data, have_manager, writes, seen_done, save_fault,
                   status_reply, active_tasks, disk, pc, path, stage, idx,
                   invoked, spawned>>

\* ---- _execute_parallel
\* line 236: gather returned
parallel_joined ==
  /\ pc = "join"
  /\ path = "parallel"
  /\ Joined
  /\ wrapper' = [i \in 1..NumSubtasks |-> "none"]
  /\ pc' = "finish"
  /\ UNCHANGED <<mvars, task_data, have_manager, writes, seen_done, save_fault,
                 status_reply, active_tasks, disk, path, stage, idx,
                 invoked, spawned>>

\* ---- _execute_sequential
\* lines 185-190: the next subtask is set RUNNING
seq_running ==
  /\ pc = "seq_loop"
  /\ idx <= NumSubtasks
  /\ SetStatus(idx, "running", FALSE, FALSE)
  /\ pc' = "seq_exec"
  /\ UNCHANGED <<mvars, task_data, have_manager, writes, seen_done, save_fault,
                 status_reply, path, stage, idx, wrapper,
                 invoked, spawned>>

\* lines 194, 203-212: no command; FAILED, the loop goes on
seq_no_command ==
  /\ pc = "seq_exec"
  /\ RaisesValueError(idx)
  /\ SetStatus(idx, "failed", FALSE, TRUE)
  /\ idx' = idx + 1
  /\ pc' = "seq_loop"
  /\ UNCHANGED <<mvars, task_data, have_manager, writes, seen_done, save_fault,
                 status_reply, path, stage, wrapper>>

\* line 194: the process is created
seq_spawn ==
  /\ pc = "seq_exec"
  /\ SpawnsProcess(idx)
  /\ pc' = "seq_wait"
  /\ UNCHANGED <<mvars, task_data, have_manager, writes, seen_done, save_fault,
                 status_reply, active_tasks, disk, path, stage, idx, wrapper>>

\* lines 194-202: exit code 0
seq_completed ==
  /\ pc = "seq_wait"
  /\ SetStatus(idx, "completed", TRUE, FALSE)
  /\ idx' = idx + 1
  /\ pc' = "seq_loop"
  /\ UNCHANGED <<mvars, task_data, have_manager, writes, seen_done, save_fault,
                 status_reply, path, stage, wrapper, invoked, spawned>>

\* a failed subtask ending the loop of _execute_sequential
seq_failed_stops_the_loop ==
  /\ pc = "seq_wait"
  /\ SetStatus(idx, "failed", FALSE, TRUE)
  /\ idx' = idx + 1
  /\ pc' = "finish"
  /\ UNCHANGED <<mvars, task_data, have_manager, writes, seen_done, save_fault,
                 status_reply, path, stage, wrapper, invoked, spawned>>

\* a failed subtask raising out of _execute_sequential
seq_failed_fails_task ==
  /\ pc = "seq_wait"
  /\ SetStatus(idx, "failed", FALSE, TRUE)
  /\ pc' = "escaped"
  /\ UNCHANGED <<mvars, task_data, have_manager, writes, seen_done, save_fault,
                 status_reply, path, stage, idx, wrapper, invoked, spawned>>

\* lines 194, 203-212: non-zero exit code; FAILED, the loop goes on
seq_failed ==
  /\ pc = "seq_wait"
  /\ SetStatus(idx, "failed", FALSE, TRUE)
  /\ idx' = idx + 1
  /\ pc' = "seq_loop"
  /\ UNCHANGED <<mvars, task_data, have_manager, writes, seen_done, save_fault,
                 status_reply, path, stage, wrapper, invoked, spawned>>

\* line 185: the list is exhausted
seq_return ==
  /\ pc = "seq_loop"
  /\ idx > NumSubtasks
  /\ pc' = "finish"
  /\ UNCHANGED <<mvars, task_data, have_manager, writes, seen_done, save_fault,
                 status_reply, active_tasks, disk, path, stage, idx,
                 wrapper, invoked, spawned>>

\* execute_task returning without the save of its finally branch
task_completed_unsaved ==
  /\ pc = "finish"
  /\ active_tasks' = [active_tasks EXCEPT ![TaskId].status = "completed",
                                          ![TaskId].endTime = TRUE]
  /\ pc' = "done"
  /\ UNCHANGED <<mvars, task_data, have_manager, writes, seen_done, disk, save_fault,
                 status_reply, path, stage, idx, wrapper, invoked, spawned>>

\* the record returned COMPLETED with endTime left None
task_completed_without_endTime ==
  /\ pc = "finish"
  /\ active_tasks' = [active_tasks EXCEPT ![TaskId].status = "completed"]
  /\ disk' = SaveTaskStatus(disk, TaskId, active_tasks'[TaskId])
  /\ pc' = "done"
  /\ UNCHANGED <<mvars, task_data, have_manager, writes, seen_done, save_fault,
                 status_reply, path, stage, idx, wrapper, invoked, spawned>>

\* execute_task returning the worst outcome of its subtasks
task_completed_worst_outcome ==
  /\ pc = "finish"
  /\ active_tasks' =
       [active_tasks EXCEPT
          ![TaskId].status = IF \E i \in DOMAIN Entries : Entries[i].status = "failed"
                             THEN "failed" ELSE "completed",
          ![TaskId].endTime = TRUE]
  /\ disk' = SaveTaskStatus(disk, TaskId, active_tasks'[TaskId])
  /\ pc' = "done"
  /\ UNCHANGED <<mvars, task_data, have_manager, writes, seen_done, save_fault,
                 status_reply, path, stage, idx, wrapper, invoked, spawned>>

\* execute_task, lines 164-175: COMPLETED, endTime set, saved, returned
task_completed ==
  /\ pc = "finish"
  /\ active_tasks' = [active_tasks EXCEPT ![TaskId].status = "completed",
                                          ![TaskId].endTime = TRUE]
  /\ disk' = SaveTaskStatus(disk, TaskId, active_tasks'[TaskId])
  /\ pc' = "done"
  /\ UNCHANGED <<mvars, task_data, have_manager, writes, seen_done, save_fault,
                 status_reply, path, stage, idx, wrapper,
                 invoked, spawned>>

Init == InitManager /\ InitExecutor

Next ==
  \/ execute_task
  \/ plan_returned
  \/ plan_raised
  \/ no_manager
  \/ deps_return
  \/ single_absent
  \/ single_running
  \/ single_no_command
  \/ single_spawn
  \/ single_completed
  \/ single_failed
  \/ group_enter
  \/ launch_first
  \/ launch_next
  \/ launch_last
  \/ group_joined
  \/ parallel_joined
  \/ seq_running
  \/ seq_no_command
  \/ seq_spawn
  \/ seq_completed
  \/ seq_failed
  \/ seq_return
  \/ task_completed
  \/ wrapper_no_command
  \/ wrapper_spawn
  \/ wrapper_completed
  \/ wrapper_failed
  \/ wrapper_return

Spec == Init /\ [][Next]_vars

\* ------------------------- SpecStore: execute_task over a storage that fails
\* One write of a snapshot may raise (the storage directory is gone, the disk
\* is full).  The failing write is one issued by execute_task itself, by
\* _execute_sequential, by the single-task branch of
\* _execute_with_dependencies, or by a wrapper's COMPLETED update; a write
\* failing in the launching loops or in a wrapper's FAILED update is not
\* injected.

\* the sizes of the subtask lists SpecStore runs
StoreSizes == {1, 2}

StoreInputs == {t \in TaskInputs : Len(t.subtasks) \in StoreSizes}

\* write_file raises: loop.run_in_executor re-raises in _save_task_status
SaveRaises ==
  /\ save_fault = "armed"
  /\ save_fault' = "spent"
  /\ UNCHANGED disk

\* _update_subtask_status up to its save: the entry is changed in memory
Mutated(active, i, status, output, error) ==
  UpdateSubtaskStatus(active, TaskId, Subtasks[i].id, status, output, error)

\* a COMPLETED update whose save raised inside the try, then the FAILED update
\* of the except branch, saved
CompletedThenFailed(i) ==
  /\ save_fault = "armed"
  /\ save_fault' = "spent"
  /\ active_tasks' = Mutated(Mutated(active_tasks, i, "completed", TRUE, FALSE),
                             i, "failed", FALSE, TRUE)
  /\ disk' = SaveTaskStatus(disk, TaskId, active_tasks'[TaskId])

\* lines 130-131: the record is registered, the first save raises out of
\* execute_task (it is issued before the try)
execute_task_save_raises ==
  /\ pc = "start"
  /\ active_tasks' = [t \in {TaskId} |-> InitialStatus(task_data)]
  /\ SaveRaises
  /\ pc' = "raised"
  /\ UNCHANGED <<mvars, task_data, have_manager, writes, seen_done, status_reply, path,
                 stage, idx,
                 wrapper, invoked, spawned>>

\* line 190: the save of the RUNNING update raises out of _execute_sequential
\* and reaches the except at line 166
seq_running_save_raises ==
  /\ pc = "seq_loop"
  /\ idx <= NumSubtasks
  /\ active_tasks' = Mutated(active_tasks, idx, "running", FALSE, FALSE)
  /\ SaveRaises
  /\ pc' = "escaped"
  /\ UNCHANGED <<mvars, task_data, have_manager, writes, seen_done, status_reply, path,
                 stage, idx,
                 wrapper, invoked, spawned>>

\* lines 197-210: the save of the COMPLETED update raises inside the try; the
\* except branch records FAILED and the loop goes on
seq_completed_save_raises ==
  /\ pc = "seq_wait"
  /\ CompletedThenFailed(idx)
  /\ idx' = idx + 1
  /\ pc' = "seq_loop"
  /\ UNCHANGED <<mvars, task_data, have_manager, writes, seen_done, status_reply, path,
                 stage,
                 wrapper, invoked, spawned>>

\* lines 205-210: non-zero exit code; the save of the FAILED update raises
\* inside the except branch and reaches the except at line 166
seq_failed_save_raises ==
  /\ pc = "seq_wait"
  /\ active_tasks' = Mutated(active_tasks, idx, "failed", FALSE, TRUE)
  /\ SaveRaises
  /\ pc' = "escaped"
  /\ UNCHANGED <<mvars, task_data, have_manager, writes, seen_done, status_reply, path,
                 stage, idx,
                 wrapper, invoked, spawned>>

\* lines 194, 205-210: no command; the save of the FAILED update raises
seq_no_command_save_raises ==
  /\ pc = "seq_exec"
  /\ RaisesValueError(idx)
  /\ active_tasks' = Mutated(active_tasks, idx, "failed", FALSE, TRUE)
  /\ SaveRaises
  /\ pc' = "escaped"
  /\ UNCHANGED <<mvars, task_data, have_manager, writes, seen_done, status_reply, path,
                 stage, idx,
                 wrapper>>

\* line 259: the save of the RUNNING update raises out of
\* _execute_with_dependencies; execute_task catches it at line 150
single_running_save_raises ==
  /\ pc = "group"
  /\ stage <= Len(Plan)
  /\ Len(Group) = 1
  /\ SubtaskMap(Subtasks, Group[1]) # 0
  /\ active_tasks' = Mutated(active_tasks, SubtaskMap(Subtasks, Group[1]),
                             "running", FALSE, FALSE)
  /\ SaveRaises
  /\ FallBack
  /\ UNCHANGED <<mvars, task_data, have_manager, writes, seen_done, status_reply,
                 stage, wrapper,
                 invoked, spawned>>

\* lines 262-277: the save of the COMPLETED update raises inside the try; the
\* except branch records FAILED and re-raises
single_completed_save_raises ==
  /\ pc = "single_wait"
  /\ CompletedThenFailed(SubtaskMap(Subtasks, Group[1]))
  /\ FallBack
  /\ UNCHANGED <<mvars, task_data, have_manager, writes, seen_done, status_reply,
                 stage, wrapper,
                 invoked, spawned>>

\* lines 270-275: non-zero exit code; the save of the FAILED update raises
single_failed_save_raises ==
  /\ pc = "single_wait"
  /\ active_tasks' = Mutated(active_tasks, SubtaskMap(Subtasks, Group[1]),
                             "failed", FALSE, TRUE)
  /\ SaveRaises
  /\ FallBack
  /\ UNCHANGED <<mvars, task_data, have_manager, writes, seen_done, status_reply,
                 stage, wrapper,
                 invoked, spawned>>

\* lines 261, 270-275: no command; the save of the FAILED update raises
single_no_command_save_raises ==
  /\ pc = "single_exec"
  /\ LET i == SubtaskMap(Subtasks, Group[1])
     IN /\ RaisesValueError(i)
        /\ active_tasks' = Mutated(active_tasks, i, "failed", FALSE, TRUE)
  /\ SaveRaises
  /\ FallBack
  /\ UNCHANGED <<mvars, task_data, have_manager, writes, seen_done, status_reply,
                 stage, wrapper>>

\* lines 306-320: the save of the wrapper's COMPLETED update raises inside the
\* try; the except branch records FAILED
wrapper_completed_save_raises ==
  \E i \in 1..NumSubtasks :
    /\ wrapper[i] = "waiting"
    /\ CompletedThenFailed(i)
    /\ wrapper' = [wrapper EXCEPT ![i] = "saving"]
    /\ UNCHANGED <<mvars, task_data, have_manager, writes, seen_done, status_reply, pc,
                   path, stage,
                   idx, invoked, spawned>>

\* lines 166-175: an exception escaped the strategy; FAILED, error, endTime,
\* saved, returned
task_failed ==
  /\ pc = "escaped"
  /\ active_tasks' = [active_tasks EXCEPT ![TaskId].status = "failed",
                                          ![TaskId].error = TRUE,
                                          ![TaskId].endTime = TRUE]
  /\ disk' = SaveTaskStatus(disk, TaskId, active_tasks'[TaskId])
  /\ pc' = "done"
  /\ UNCHANGED <<mvars, task_data, have_manager, writes, seen_done, save_fault,
                 status_reply, path,
                 stage, idx, wrapper, invoked, spawned>>

\* lines 164-173: COMPLETED and endTime are set; the save in the finally
\* branch raises out of execute_task
task_completed_save_raises ==
  /\ pc = "finish"
  /\ active_tasks' = [active_tasks EXCEPT ![TaskId].status = "completed",
                                          ![TaskId].endTime = TRUE]
  /\ SaveRaises
  /\ pc' = "raised"
  /\ UNCHANGED <<mvars, task_data, have_manager, writes, seen_done, status_reply, path,
                 stage, idx,
                 wrapper, invoked, spawned>>

InitStore ==
  /\ InitManager
  /\ task_data \in StoreInputs
  /\ have_manager \in BOOLEAN
  /\ active_tasks = <<>>
  /\ pc = "start"
  /\ path = "none"
  /\ stage = 0
  /\ idx = 0
  /\ wrapper = [i \in 1..Len(task_data.subtasks) |-> "none"]
  /\ invoked = [i \in 1..Len(task_data.subtasks) |-> 0]
  /\ spawned = [i \in 1..Len(task_data.subtasks) |-> 0]
  /\ disk = <<>>
  /\ save_fault = "armed"
  /\ status_reply = NoReply
  /\ writes = <<>>
  /\ seen_done = {}

NextStore ==
  \/ Next
  \/ execute_task_save_raises
  \/ seq_running_save_raises
  \/ seq_completed_save_raises
  \/ seq_failed_save_raises
  \/ seq_no_command_save_raises
  \/ single_running_save_raises
  \/ single_completed_save_raises
  \/ single_failed_save_raises
  \/ single_no_command_save_raises
  \/ wrapper_completed_save_raises
  \/ task_failed
  \/ task_completed_save_raises

SpecStore == InitStore /\ [][NextStore]_vars

\* --------------- SpecStatus: get_task_status beside executors that write
\* An executor holding some active records answers status requests while
\* execute_task calls, its own or those of other executors over the same
\* storage_dir (mcp_integration.py creates one executor per request), register
\* records and write snapshot files.

\* the task ids requests name
TaskNames == {"task", "other"}

\* records as they are registered and written: RUNNING, COMPLETED or FAILED,
\* with one subtask entry
SampleRecords ==
  {[status |-> s,
    subtasks |-> <<[id |-> 1,
                    status |-> IF s = "running" THEN "pending" ELSE s,
                    output |-> s = "completed",
                    error |-> s = "failed"]>>,
    executionMode |-> "sequential",
    endTime |-> s # "running",
    error |-> FALSE] : s \in {"running", "completed", "failed"}}

\* a reply of get_task_status waiting to be returned to its caller
Reply(task_id, value) == [kind |-> "reply", id |-> task_id, value |-> value]

\* execute_task, line 130, on this executor: the record is registered
register_task ==
  /\ \E id \in TaskNames, r \in SampleRecords :
       active_tasks' = [t \in DOMAIN active_tasks \cup {id} |->
                          IF t = id THEN r ELSE active_tasks[t]]
  /\ UNCHANGED <<mvars, task_data, have_manager, writes, seen_done, pc, path, stage,
                 idx, wrapper,
                 invoked, spawned, disk, save_fault, status_reply>>

\* write_file, line 402: open(status_file, 'w') creates or empties the file
write_file_open ==
  /\ \E id \in TaskNames :
       disk' = [t \in DOMAIN disk \cup {id} |->
                  IF t = id THEN TruncatedFile ELSE disk[t]]
  /\ UNCHANGED <<mvars, task_data, have_manager, writes, seen_done, active_tasks, pc,
                 path, stage,
                 idx, wrapper, invoked, spawned, save_fault, status_reply>>

\* write_file, line 403: the record is dumped and the file closed
write_file_dump ==
  /\ \E id \in DOMAIN disk, r \in SampleRecords :
       /\ disk[id] = TruncatedFile
       /\ disk' = SaveTaskStatus(disk, id, r)
  /\ UNCHANGED <<mvars, task_data, have_manager, writes, seen_done, active_tasks, pc,
                 path, stage,
                 idx, wrapper, invoked, spawned, save_fault, status_reply>>

\* get_task_status(task_id), lines 407-435
get_task_status ==
  /\ status_reply = NoReply
  /\ \E id \in TaskNames :
       status_reply' = Reply(id, GetTaskStatus(active_tasks, disk, id))
  /\ UNCHANGED <<mvars, task_data, have_manager, writes, seen_done, active_tasks, pc,
                 path, stage,
                 idx, wrapper, invoked, spawned, disk, save_fault>>

\* the caller has taken the reply
status_returned ==
  /\ status_reply # NoReply
  /\ status_reply' = NoReply
  /\ UNCHANGED <<mvars, task_data, have_manager, writes, seen_done, active_tasks, pc,
                 path, stage,
                 idx, wrapper, invoked, spawned, disk, save_fault>>

InitStatus == InitPlan

NextStatus ==
  \/ register_task
  \/ write_file_open
  \/ write_file_dump
  \/ get_task_status
  \/ status_returned

SpecStatus == InitStatus /\ [][NextStatus]_vars

\* --------------- SpecUpdate: _update_subtask_status on an executor's records
\* One executor holding the records of up to two tasks of two subtasks each;
\* its coroutines call _update_subtask_status with any task id and subtask id.

\* the subtask lists of the tasks: two ids, or one id twice
UpdateInputs ==
  {[subtasks |-> [i \in 1..2 |-> [id |-> ids[i]]], executionMode |-> m] :
     ids \in IdLists(2), m \in Modes}

\* the (status, output, error) shapes _update_subtask_status is called with:
\* RUNNING alone (lines 190, 229, 259, 284), COMPLETED with an output (197-202,
\* 262-267, 307-312), FAILED with an error (205-210, 270-275, 315-320)
UpdateCalls ==
  {<<"running", FALSE, FALSE>>, <<"completed", TRUE, FALSE>>, <<"failed", FALSE, TRUE>>}

\* execute_task, lines 119-131, for a task id the executor does not hold yet
begin_task ==
  /\ \E id \in TaskNames \ DOMAIN active_tasks, td \in UpdateInputs :
       /\ active_tasks' = [t \in DOMAIN active_tasks \cup {id} |->
                             IF t = id THEN InitialStatus(td) ELSE active_tasks[t]]
       /\ disk' = SaveTaskStatus(disk, id, InitialStatus(td))
  /\ UNCHANGED <<mvars, task_data, have_manager, writes, seen_done, pc, path, stage,
                 idx, wrapper,
                 invoked, spawned, save_fault, status_reply>>

\* _update_subtask_status(task_id, subtask_id, status, output, error), lines
\* 371-386: return at once without a record; else update and save
update_subtask_status ==
  /\ \E task_id \in TaskNames, subtask_id \in TaskIds, c \in UpdateCalls :
       /\ active_tasks' =
            UpdateSubtaskStatus(active_tasks, task_id, subtask_id, c[1], c[2], c[3])
       /\ disk' = IF task_id \in DOMAIN active_tasks
                  THEN SaveTaskStatus(disk, task_id, active_tasks'[task_id])
                  ELSE disk
  /\ UNCHANGED <<mvars, task_data, have_manager, writes, seen_done, pc, path, stage,
                 idx, wrapper,
                 invoked, spawned, save_fault, status_reply>>

InitUpdate == InitPlan

NextUpdate == begin_task \/ update_subtask_status

SpecUpdate == InitUpdate /\ [][NextUpdate]_vars

\* --------------- SpecWrites: the siblings of a parallel stage saving at once
\* _execute_parallel has launched three subtasks and awaits gather; each
\* wrapper, when its process ends, updates its entry and awaits write_file on
\* the default thread pool (line 405), so up to three write_file jobs run on
\* three threads over the same file, while a fresh executor (one per status
\* request, mcp_integration.py line 246) reads the file.

\* the subtask positions of the stage
Siblings == {1, 2, 3}

\* characters json.dump writes for a key holding a text (an output, an error
\* message, a time stamp), at least
KeyLength == 20

\* characters of the values the record holds
StringLength(s) ==
  CASE s \in {"pending", "running"} -> 7
    [] s = "completed" -> 9
    [] s = "failed" -> 6
    [] s = "sequential" -> 10
    [] s = "parallel" -> 8
    [] OTHER -> KeyLength

ValueLength(v) ==
  IF v = JsonAbsent THEN 0 ELSE IF v = JsonNull THEN 4 ELSE StringLength(v[2])

RECURSIVE EntriesLength(_)
EntriesLength(entries) ==
  IF entries = <<>> THEN 0
  ELSE ValueLength(Head(entries).status) + ValueLength(Head(entries).output)
       + ValueLength(Head(entries).error) + EntriesLength(Tail(entries))

\* the length of what json.dump writes for a record, up to what every
\* snapshot of the task shares (keys, ids, startTime, indentation)
DumpLength(doc) ==
  ValueLength(doc.status) + ValueLength(doc.executionMode) + ValueLength(doc.endTime)
  + ValueLength(doc.error) + EntriesLength(doc.subtasks)

\* a file holding the start of one dump followed by the rest of a longer one
GarbledFile(n) == <<"garbled", n>>

FileLength(file) ==
  IF file = TruncatedFile THEN 0
  ELSE IF file[1] = "json" THEN DumpLength(file[2]) ELSE file[2]

\* the with block of write_file ends (line 403): the buffered text is written
\* at offset 0 of the file as it is by then, which keeps whatever lies beyond
CloseFile(file, doc) ==
  IF DumpLength(doc) >= FileLength(file)
  THEN <<"json", doc>>
  ELSE GarbledFile(FileLength(file))

\* the job a coroutine awaits: not issued or finished, waiting for a thread,
\* past open(status_file, 'w'), or past json.dump with its text still buffered
NoJob == <<"none">>
Queued == <<"queued">>
Opened == <<"opened">>
Dumped(doc) == <<"dumped", doc>>

\* the argument of execute_task: three parallel subtasks with commands
WritesInput ==
  [subtasks |-> [i \in Siblings |-> [id |-> i, dependencies |-> {},
                                     executionMode |-> "parallel", command |-> TRUE]],
   executionMode |-> "parallel"]

\* the record once the launching loop has set every subtask RUNNING
AllRunning ==
  [InitialStatus(WritesInput) EXCEPT
     !.subtasks = [i \in Siblings |-> [@[i] EXCEPT !.status = "running"]]]

\* _execute_parallel at gather (line 236): every wrapper has created its
\* process, the last save of the launching loop has returned
InitWrites ==
  /\ InitManager
  /\ task_data = WritesInput
  /\ have_manager = FALSE
  /\ active_tasks = [t \in {TaskId} |-> AllRunning]
  /\ pc = "join"
  /\ path = "parallel"
  /\ stage = 0
  /\ idx = 3
  /\ wrapper = [i \in Siblings |-> "waiting"]
  /\ invoked = [i \in Siblings |-> 1]
  /\ spawned = [i \in Siblings |-> 1]
  /\ disk = [t \in {TaskId} |-> WrittenFile(AllRunning)]
  /\ save_fault = "none"
  /\ status_reply = NoReply
  /\ writes = [i \in Siblings |-> NoJob]
  /\ seen_done = {}

\* _update_subtask_status of a wrapper: the entry is set and write_file is
\* handed to the thread pool (lines 376-386, 405)
SiblingUpdates(i, status, output, error) ==
  /\ active_tasks' = UpdateSubtaskStatus(active_tasks, TaskId, Subtasks[i].id,
                                         status, output, error)
  /\ wrapper' = [wrapper EXCEPT ![i] = "saving"]
  /\ writes' = [writes EXCEPT ![i] = Queued]

\* lines 306-312: exit code 0
sibling_completed ==
  \E i \in Siblings :
    /\ wrapper[i] = "waiting"
    /\ SiblingUpdates(i, "completed", TRUE, FALSE)
    /\ UNCHANGED <<mvars, task_data, have_manager, seen_done, save_fault, status_reply,
                   disk, pc, path, stage, idx, invoked, spawned>>

\* lines 313-320: non-zero exit code
sibling_failed ==
  \E i \in Siblings :
    /\ wrapper[i] = "waiting"
    /\ SiblingUpdates(i, "failed", FALSE, TRUE)
    /\ UNCHANGED <<mvars, task_data, have_manager, seen_done, save_fault, status_reply,
                   disk, pc, path, stage, idx, invoked, spawned>>

\* write_file on a pool thread, line 402: the file is created or emptied
job_open ==
  \E i \in DOMAIN writes :
    /\ writes[i] = Queued
    /\ writes' = [writes EXCEPT ![i] = Opened]
    /\ disk' = [t \in DOMAIN disk \cup {TaskId} |->
                  IF t = TaskId THEN TruncatedFile ELSE disk[t]]
    /\ UNCHANGED <<mvars, task_data, have_manager, seen_done, save_fault, status_reply,
                   active_tasks, pc, path, stage, idx, wrapper, invoked, spawned>>

\* line 403: json.dump reads the record as it is now into the file's buffer
job_dump ==
  \E i \in DOMAIN writes :
    /\ writes[i] = Opened
    /\ writes' = [writes EXCEPT ![i] = Dumped(JsonDump(active_tasks[TaskId]))]
    /\ UNCHANGED <<mvars, task_data, have_manager, seen_done, save_fault, status_reply,
                   active_tasks, disk, pc, path, stage, idx, wrapper, invoked, spawned>>

\* the with block ends: the buffer is flushed and the file closed
job_close ==
  \E i \in DOMAIN writes :
    /\ writes[i][1] = "dumped"
    /\ disk' = [disk EXCEPT ![TaskId] = CloseFile(@, writes[i][2])]
    /\ writes' = [writes EXCEPT ![i] = NoJob]
    /\ UNCHANGED <<mvars, task_data, have_manager, seen_done, save_fault, status_reply,
                   active_tasks, pc, path, stage, idx, wrapper, invoked, spawned>>

\* run_in_executor's future is done (line 405): the wrapper returns
sibling_return ==
  \E i \in Siblings :
    /\ wrapper[i] = "saving"
    /\ writes[i] = NoJob
    /\ wrapper' = [wrapper EXCEPT ![i] = "done"]
    /\ UNCHANGED <<mvars, task_data, have_manager, writes, seen_done, save_fault,
                   status_reply, active_tasks, disk, pc, path, stage, idx, invoked,
                   spawned>>

\* the entries a record shows COMPLETED or FAILED
ShownDone(value) ==
  IF value = None THEN {}
  ELSE {i \in DOMAIN value.subtasks : value.subtasks[i].status \in {"completed",
  "failed"}}

\* get_task_status(task_id) on a fresh executor: the file is read
read_snapshot ==
  /\ status_reply' = Reply(TaskId, GetTaskStatus(<<>>, disk, TaskId))
  /\ seen_done' = seen_done \cup ShownDone(GetTaskStatus(<<>>, disk, TaskId))
  /\ UNCHANGED <<mvars, task_data, have_manager, writes, save_fault, active_tasks,
                 disk, pc, path, stage, idx, wrapper, invoked, spawned>>

NextWrites ==
  \/ sibling_completed
  \/ sibling_failed
  \/ job_open
  \/ job_dump
  \/ job_close
  \/ sibling_return
  \/ read_snapshot

SpecWrites == InitWrites /\ [][NextWrites]_vars

\* --------------- SpecHandlers: handle_task_execution and handle_task_status
\* handle_task_execution creates an executor, starts execute_task on a thread
\* of its own and returns the task id at once; handle_task_status creates a
\* fresh executor per request, which holds no active record and answers from
\* the snapshot file alone.  The thread runs a task of one subtask, each save
\* a write_file job on the pool.

\* the task the execution request carries
HandlerInputs ==
  {[subtasks |-> <<[id |-> 1, dependencies |-> {}, executionMode |-> m, command |-> c]>>,
    executionMode |-> m] : m \in Modes, c \in BOOLEAN}

\* no request has been handled
InitHandlers ==
  /\ InitManager
  /\ task_data \in HandlerInputs
  /\ have_manager = FALSE
  /\ active_tasks = <<>>
  /\ pc = "unused"
  /\ path = "none"
  /\ stage = 0
  /\ idx = 0
  /\ wrapper = <<>>
  /\ invoked = <<0>>
  /\ spawned = <<0>>
  /\ disk = <<>>
  /\ save_fault = "none"
  /\ status_reply = NoReply
  /\ writes = <<NoJob>>
  /\ seen_done = {}

\* handle_task_execution, mcp_integration.py lines 187-217: the executor is
\* created, the thread started, success and the task id returned
handle_task_execution ==
  /\ pc = "unused"
  /\ pc' = "start"
  /\ UNCHANGED <<mvars, task_data, have_manager, writes, seen_done, save_fault,
                 status_reply, active_tasks, disk, path, stage, idx, wrapper, invoked,
                 spawned>>

\* the thread enters execute_task, lines 114-131: the record is registered
\* with the thread's executor and its first save handed to the pool
thread_execute_task ==
  /\ pc = "start"
  /\ active_tasks' = [t \in {TaskId} |-> InitialStatus(task_data)]
  /\ writes' = <<Queued>>
  /\ pc' = "strategy"
  /\ UNCHANGED <<mvars, task_data, have_manager, seen_done, save_fault, status_reply,
                 disk, path, stage, idx, wrapper, invoked, spawned>>

\* the first save returned; the subtask is set RUNNING (line 190 / 229) and
\* the record saved again
thread_subtask_running ==
  /\ pc = "strategy"
  /\ writes = <<NoJob>>
  /\ active_tasks' = UpdateSubtaskStatus(active_tasks, TaskId, 1, "running", FALSE, FALSE)
  /\ writes' = <<Queued>>
  /\ pc' = "invoke"
  /\ UNCHANGED <<mvars, task_data, have_manager, seen_done, save_fault, status_reply,
                 disk, path, stage, idx, wrapper, invoked, spawned>>

\* _execute_subtask ends: COMPLETED with the output (exit code 0), or FAILED
\* with the error (no command, non-zero exit code); the record is saved
thread_subtask_ends ==
  /\ pc = "invoke"
  /\ writes = <<NoJob>>
  /\ \E ok \in {b \in BOOLEAN : b => Subtasks[1].command} :
       active_tasks' = UpdateSubtaskStatus(active_tasks, TaskId, 1,
                                           IF ok THEN "completed" ELSE "failed", ok, ~ok)
  /\ invoked' = <<1>>
  /\ spawned' = <<IF Subtasks[1].command THEN 1 ELSE 0>>
  /\ writes' = <<Queued>>
  /\ pc' = "finish"
  /\ UNCHANGED <<mvars, task_data, have_manager, seen_done, save_fault, status_reply,
                 disk, path, stage, idx, wrapper>>

\* execute_task, lines 164-173: COMPLETED, endTime set, the last save issued
thread_task_completed ==
  /\ pc = "finish"
  /\ writes = <<NoJob>>
  /\ active_tasks' = [active_tasks EXCEPT ![TaskId].status = "completed",
                                          ![TaskId].endTime = TRUE]
  /\ writes' = <<Queued>>
  /\ pc' = "return"
  /\ UNCHANGED <<mvars, task_data, have_manager, seen_done, save_fault, status_reply,
                 disk, path, stage, idx, wrapper, invoked, spawned>>

\* line 175: the last save returned, execute_task returns and the thread ends
thread_returns ==
  /\ pc = "return"
  /\ writes = <<NoJob>>
  /\ pc' = "done"
  /\ UNCHANGED <<mvars, task_data, have_manager, writes, seen_done, save_fault,
                 status_reply, active_tasks, disk, path, stage, idx, wrapper, invoked,
                 spawned>>

\* handle_task_status, mcp_integration.py lines 241-271: a fresh executor,
\* get_task_status on it; None becomes the answer "Task ... not found"
handle_task_status ==
  /\ status_reply = NoReply
  /\ \E id \in TaskNames :
       status_reply' = Reply(id, GetTaskStatus(<<>>, disk, id))
  /\ UNCHANGED <<mvars, task_data, have_manager, writes, seen_done, save_fault,
                 active_tasks, disk, pc, path, stage, idx, wrapper, invoked, spawned>>

NextHandlers ==
  \/ handle_task_execution
  \/ thread_execute_task
  \/ thread_subtask_running
  \/ thread_subtask_ends
  \/ thread_task_completed
  \/ thread_returns
  \/ job_open
  \/ job_dump
  \/ job_close
  \/ handle_task_status
  \/ status_returned

SpecHandlers == InitHandlers /\ [][NextHandlers]_vars

\* ================================================================ properties
\* ---- vocabulary of the properties, in terms of the inputs
RECURSIVE Upstream(_, _, _)
\* the ids the ids of `frontier` depend on, directly or not, under the
\* declared <<dependency, id>> pairs rel
Upstream(rel, frontier, seen) ==
  LET next == {e[1] : e \in {x \in rel : x[2] \in frontier}} \ seen
  IN IF next = {} THEN seen ELSE Upstream(rel, next, seen \cup next)

\* the declared dependencies contain a directed cycle (a self-dependency included)
DeclaredCycle(rel) == \E e \in rel : e[2] \in Upstream(rel, {e[2]}, {})

\* the declared <<dependency, id>> pairs whose dependency is no descriptor's id
MissingEdges(ids, rel) == {e \in rel : e[1] \notin ids}

\* the stages of a plan that hold id
StagesOf(stages, id) == {k \in DOMAIN stages : id \in Range(stages[k])}

Messages(errs, kind) == SelectSeq(errs, LAMBDA e : e.kind = kind)

\* ---- the planner (SpecPlan)

\* C1: for a descriptor list whose dependencies are acyclic and all name
\* descriptors of the list, create_execution_plan returns a plan that holds
\* every task id in exactly one stage, once, and every dependency of a task
\* in a stage strictly before the task's.
C1_PlanCoversAndOrders ==
  (/\ result.kind # "none"
   /\ ~DeclaredCycle(given_deps)
   /\ MissingEdges(given_ids, given_deps) = {})
  => /\ result.kind = "plan"
     /\ LET flat == Flatten(result.stages)
        IN /\ Len(flat) = Cardinality(given_ids)
           /\ Range(flat) = given_ids
     /\ \A e \in given_deps :
          \A k \in StagesOf(result.stages, e[1]), l \in StagesOf(result.stages, e[2]) :
            k < l

\* a fork 1 <- {2, 3} planned as a first stage and a two-member second stage
C1_Witness ==
  /\ mgr_pc = "idle"
  /\ result.kind = "plan"
  /\ given_ids = {1, 2, 3}
  /\ given_deps = {<<1, 2>>, <<1, 3>>}
  /\ Len(result.stages) = 2
  /\ Len(result.stages[2]) = 2

\* C2: when the declared dependencies contain a directed cycle (a
\* self-dependency, several cycles), the list validate_dependencies returns
\* holds exactly one cycle message, and create_execution_plan raises instead
\* of returning a plan.
C2_CycleReportedOnce ==
  DeclaredCycle(given_deps)
  => /\ errors # NotValidated => Len(Messages(errors, "cycle")) = 1
     /\ result.kind # "none" => result.kind = "raised"

\* two cycles at once, a self-dependency and 2 <-> 3: one message, no plan
C2_Witness ==
  /\ given_deps = {<<1, 1>>, <<2, 3>>, <<3, 2>>}
  /\ errors = <<CycleError>>
  /\ result.kind = "raised"

\* C3: a dependency id that no add_task call introduced as a task is reported
\* by validate_dependencies, one missing-dependency message per such pair,
\* naming the dependent task and the missing id.
C3_MissingReported ==
  errors # NotValidated
  => \A e \in MissingEdges(given_ids, given_deps) :
       Len(SelectSeq(errors, LAMBDA m : m = MissingError(e[2], e[1]))) = 1

\* C4: create_execution_plan raises whenever a descriptor names a dependency
\* that is no descriptor's id, and no returned plan holds an id that is not a
\* descriptor's id.
C4_NoPlanForMissingDependency ==
  result.kind # "none"
  => /\ MissingEdges(given_ids, given_deps) # {} => result.kind = "raised"
     /\ result.kind = "plan" => Range(Flatten(result.stages)) \subseteq given_ids

\* ---- the executor (Spec)
Terminal == {"completed", "failed"}
SubtaskIds == {Subtasks[i].id : i \in 1..NumSubtasks}

\* the status the record keeps for a subtask id: that of the entry every
\* update of the id is written to
StatusIn(entries, id) == entries[FirstEntry(entries, id)].status
StatusOfId(id) == StatusIn(Entries, id)

\* id a is planned in a stage strictly before id b's
PlannedBefore(a, b) ==
  \E k \in StagesOf(Plan, a), l \in StagesOf(Plan, b) : k < l

\* C5: while the plan is executed, a subtask of a stage is RUNNING only when
\* every subtask of every earlier stage is COMPLETED or FAILED, however the
\* members of the multi-member stages interleave.  A subtask is the id the
\* plan names; its status is the one recorded for that id (StatusOfId).
C5_StageBarrier ==
  path = "deps"
  => \A a \in SubtaskIds, b \in SubtaskIds :
       (StatusOfId(b) = "running" /\ PlannedBefore(a, b))
       => StatusOfId(a) \in Terminal

\* the plan [[a, b], [c]]: c RUNNING after a FAILED and b COMPLETED
C5_Witness ==
  /\ path = "deps"
  /\ Len(Plan) = 2
  /\ Len(Plan[1]) = 2
  /\ stage = 2
  /\ StatusOfId(Plan[1][1]) = "failed"
  /\ StatusOfId(Plan[1][2]) = "completed"
  /\ StatusOfId(Plan[2][1]) = "running"

\* the declared dependencies between subtasks of the task
SubtaskDeps == {e \in DeclaredDeps(Subtasks) : e[1] \in SubtaskIds}

Rank(status) == IF status = "pending" THEN 0 ELSE IF status = "running" THEN 1 ELSE 2

\* C7: within one execute_task call an entry's status moves only from PENDING
\* to RUNNING and from RUNNING to COMPLETED or FAILED; once COMPLETED or
\* FAILED it is never RUNNING or PENDING again, on any path.
C7_StatusNeverMovesBack ==
  [][\A i \in DOMAIN Entries :
       \/ Entries'[i].status = Entries[i].status
       \/ Rank(Entries'[i].status) = Rank(Entries[i].status) + 1]_vars

\* a returned plan was abandoned: the subtask of the single-member group
\* number `stage` failed and execute_task left _execute_with_dependencies
PlanAborted == result.kind = "plan" /\ path \in {"sequential", "parallel"}

\* C8: once the subtask of a single-member stage has FAILED, no subtask of a
\* later stage of the plan is invoked in the rest of the execute_task call.
C8_FailFastAbortsLaterStages ==
  [][PlanAborted
     => \A i \in 1..NumSubtasks :
          (\E l \in StagesOf(Plan, Subtasks[i].id) : l > stage)
          => invoked'[i] = invoked[i]]_vars

\* C9: within one execute_task call no subtask is invoked twice, and no
\* subtask's command is spawned twice.
C9_InvokedAtMostOnce ==
  \A i \in 1..NumSubtasks : invoked[i] <= 1 /\ spawned[i] <= 1

NothingStarted ==
  /\ \A i \in 1..NumSubtasks : invoked[i] = 0
  /\ \A i \in DOMAIN Entries : Entries[i].status = "pending"

\* the executor plans (it has a dependency manager) and the declared
\* dependencies of the subtasks contain a cycle
CyclicTask == have_manager /\ DeclaredCycle(DeclaredDeps(Subtasks))

\* C10, as claimed: when the declared dependencies contain a cycle,
\* execute_task invokes no subtask and every entry stays PENDING.
C10_CycleNeverStarts == CyclicTask => NothingStarted

\* C10, amended: when the declared dependencies contain a cycle, no plan is
\* returned and the plan-driven path is never entered; nothing is invoked and
\* every entry is PENDING until execute_task falls back to the path its
\* executionMode selects, and that path has invoked every subtask once when
\* execute_task returns.
C10_CycleFallsBack ==
  CyclicTask
  => /\ result.kind # "plan"
     /\ path # "deps"
     /\ path = "none" => NothingStarted
     /\ pc = "done" => \A i \in 1..NumSubtasks : invoked[i] = 1

\* a cyclic task of three subtasks, returned after the fallback ran them all
C10_Witness ==
  /\ CyclicTask
  /\ NumSubtasks = 3
  /\ result.kind = "raised"
  /\ pc = "done"
  /\ \E i \in DOMAIN Entries : Entries[i].status = "completed"
  /\ \E i \in DOMAIN Entries : Entries[i].status = "failed"

\* ---- the fallback paths (Spec)
\* the task record of the one execute_task call
TaskRecord == active_tasks[TaskId]

\* create_execution_plan raised, or the executor has no dependency manager
NoPlanAvailable == pc \notin {"start", "strategy"} /\ (~have_manager \/ result.kind = "raised")

\* C11: when create_execution_plan raises or there is no dependency manager,
\* execute_task runs the path the task's own executionMode selects and never
\* the plan-driven one; the sequential path invokes the subtasks one at a
\* time in list order, the parallel path has launched every subtask when it
\* joins them; when execute_task returns every subtask has been invoked
\* once and the task is COMPLETED, whatever the declared dependencies.
C11_FallbackByExecutionMode ==
  NoPlanAvailable
  => /\ path = task_data.executionMode
     /\ path = "sequential"
        => \A i \in 1..NumSubtasks :
             /\ invoked[i] > 0 => i <= idx
             /\ i < idx => invoked[i] = 1
     /\ (path = "parallel" /\ pc = "join")
        => \A i \in 1..NumSubtasks : wrapper[i] # "none"
     /\ pc = "done"
        => /\ \A i \in 1..NumSubtasks : invoked[i] = 1
           /\ TaskRecord.status = "completed"

\* no dependency manager, sequential task: subtask 1 declares a dependency on
\* subtask 2 and is invoked while 2 is still PENDING
C11_Witness ==
  /\ ~have_manager
  /\ path = "sequential"
  /\ NumSubtasks = 2
  /\ Subtasks[1].id = 1 /\ Subtasks[2].id = 2
  /\ Subtasks[1].dependencies = {2}
  /\ invoked[1] = 1
  /\ Entries[2].status = "pending"

\* ---- the task-level outcome (SpecStore)
\* C12: as long as no write of the snapshot has raised, no exception escapes
\* the strategy: execute_task returns a record whose status is COMPLETED and
\* that carries no error, however many subtask entries are FAILED.
C12_SubtaskFailuresNotRolledUp ==
  (pc = "done" /\ save_fault # "spent")
  => TaskRecord.status = "completed" /\ ~TaskRecord.error

\* a two-member stage whose members both FAILED, then a COMPLETED task
C12_Witness ==
  /\ pc = "done"
  /\ save_fault = "armed"
  /\ path = "deps"
  /\ Len(Plan) = 1 /\ Len(Plan[1]) = 2
  /\ \A i \in DOMAIN Entries : Entries[i].status = "failed"
  /\ TaskRecord.status = "completed"

\* execute_task has been entered: its record is registered
Entered == TaskId \in DOMAIN active_tasks

\* the record as it stands: RUNNING with endTime None until execute_task has
\* left its strategy, the status terminal exactly when endTime is set, and
\* the returned record terminal
TaskStatusShape ==
  /\ pc = "start" => ~Entered
  /\ Entered
     => /\ TaskRecord.status \in {"running", "completed", "failed"}
        /\ TaskRecord.endTime <=> TaskRecord.status # "running"
        /\ pc \notin {"done", "raised"} => TaskRecord.status = "running"
        /\ pc = "done" => TaskRecord.status # "running" /\ TaskRecord.endTime

\* a step leaves the task-level status and endTime alone, or takes a RUNNING
\* record to COMPLETED or FAILED
TaskStatusStep ==
  Entered
  => \/ /\ TaskRecord'.status = TaskRecord.status
        /\ TaskRecord'.endTime = TaskRecord.endTime
     \/ /\ TaskRecord.status = "running"
        /\ TaskRecord'.status \in {"completed", "failed"}

\* C13: the task-level status is RUNNING from the entry into execute_task
\* until it changes, once, to COMPLETED or FAILED, and never changes after;
\* endTime is None exactly while the status is RUNNING, and set in the
\* record execute_task returns.
C13_TaskStatusChangesOnce == []TaskStatusShape /\ [][TaskStatusStep]_vars

\* a record returned FAILED, with its endTime, after a subtask had COMPLETED
C13_Witness ==
  /\ pc = "done"
  /\ TaskRecord.status = "failed"
  /\ TaskRecord.endTime
  /\ \E i \in DOMAIN Entries : Entries[i].status = "completed"

\* ---- multi-member stages (Spec)
\* the subtask positions launched in the stage being run
Members == {LaunchList[k] : k \in 1..Len(LaunchList)}

\* execute_task is running a multi-member stage of the plan
InStage == path = "deps" /\ pc \in {"launch", "launch_save", "join"}

\* C14: in a multi-member stage the failure of a member is recorded on that
\* member's entry and aborts nothing: a step that records a member FAILED
\* changes no other entry and no sibling's task, every launched sibling is
\* still invoked, and the stage is left only when every member's task is done
\* and its entry COMPLETED or FAILED.
C14_MemberFailureAbortsNothing ==
  [][InStage
     => /\ \A i \in Members :
             (wrapper[i] # "saving" /\ wrapper'[i] = "saving"
              /\ Entries'[FirstEntry(Entries, Subtasks[i].id)].status = "failed")
             => /\ \A j \in DOMAIN Entries :
                     j # FirstEntry(Entries, Subtasks[i].id) => Entries'[j] = Entries[j]
                /\ \A j \in Members \ {i} : wrapper'[j] = wrapper[j]
                /\ pc' = pc /\ stage' = stage
        /\ stage' # stage
           => \A i \in Members :
                /\ wrapper[i] = "done"
                /\ invoked[i] = 1
                /\ StatusOfId(Subtasks[i].id) \in Terminal]_vars

\* a two-member stage: one member has FAILED, its sibling ran on and is
\* COMPLETED
C14_Witness ==
  /\ InStage
  /\ pc = "join"
  /\ Cardinality(Members) = 2
  /\ \E i, j \in Members :
       /\ i # j
       /\ wrapper[i] = "done" /\ StatusOfId(Subtasks[i].id) = "failed"
       /\ wrapper[j] = "saving" /\ StatusOfId(Subtasks[j].id) = "completed"

\* ---- the sequential path (Spec)
RunningEntries == {i \in DOMAIN Entries : Entries[i].status = "running"}

\* _execute_sequential as it stands: at most one entry RUNNING, and the
\* method has returned only once the loop has passed every subtask
SequentialShape ==
  path = "sequential"
  => /\ Cardinality(RunningEntries) <= 1
     /\ idx \in 1..(NumSubtasks + 1)
     /\ pc \in {"finish", "done"} => idx = NumSubtasks + 1

\* a step of _execute_sequential: an entry enters RUNNING only when the
\* subtasks before it in the list are COMPLETED or FAILED; the subtask at hand
\* is invoked before the loop waits for it or passes it, and is COMPLETED or
\* FAILED when the loop passes it; the loop passes one subtask at a time
SequentialStep ==
  (path = "sequential" /\ path' = "sequential")
  => /\ (\E j \in DOMAIN Entries :
           Entries'[j].status = "running" /\ Entries[j].status # "running")
        => /\ pc = "seq_loop"
           /\ \A i \in 1..(idx - 1) : StatusOfId(Subtasks[i].id) \in Terminal
     /\ (pc = "seq_exec" /\ pc' # "seq_exec") => invoked'[idx] = invoked[idx] + 1
     /\ idx' # idx
        => /\ idx' = idx + 1
           /\ pc \in {"seq_exec", "seq_wait"}
           /\ StatusIn(Entries', Subtasks[idx].id) \in Terminal

\* C15: in the sequential path the subtasks are processed one at a time in
\* list order: at most one is RUNNING, a subtask enters RUNNING only after
\* those before it are COMPLETED or FAILED, and every subtask is invoked,
\* also after an earlier one FAILED.
C15_SequentialInListOrder == []SequentialShape /\ [][SequentialStep]_vars

\* three subtasks run sequentially without a manager: the first FAILED, the
\* second COMPLETED, the third is RUNNING after its invocation
C15_Witness ==
  /\ ~have_manager
  /\ path = "sequential"
  /\ NumSubtasks = 3
  /\ Entries[1].status = "failed"
  /\ Entries[2].status = "completed"
  /\ Entries[3].status = "running"
  /\ invoked = <<1, 1, 1>>

\* ---- the parallel path (Spec)
\* _execute_parallel as it stands: the launching loop can always take its
\* next step, whatever the tasks created so far are doing; once the method
\* has returned, every subtask has been invoked and is COMPLETED or FAILED
ParallelShape ==
  path = "parallel"
  => /\ pc = "launch" => ENABLED launch_first
     /\ pc = "launch_save" => ENABLED (launch_next \/ launch_last)
     /\ pc \in {"finish", "done"}
        => \A i \in 1..NumSubtasks :
             invoked[i] >= 1 /\ StatusOfId(Subtasks[i].id) \in Terminal

\* gather returns only when the task of every subtask is done
ParallelStep ==
  (path = "parallel" /\ pc = "join" /\ pc' # "join")
  => \A i \in 1..NumSubtasks :
       wrapper[i] = "done" /\ StatusOfId(Subtasks[i].id) \in Terminal

\* C16: in the parallel path every subtask is launched without waiting for
\* another subtask to finish, and _execute_parallel returns only after every
\* subtask is COMPLETED or FAILED, in whatever order they finish and
\* whichever of them fail.
C16_ParallelLaunchAndJoin == []ParallelShape /\ [][ParallelStep]_vars

\* three subtasks launched: the last one has already FAILED while the first
\* is still running and the second has COMPLETED
C16_Witness ==
  /\ path = "parallel"
  /\ pc = "join"
  /\ NumSubtasks = 3
  /\ wrapper = <<"waiting", "done", "done">>
  /\ Entries[1].status = "running"
  /\ Entries[2].status = "completed"
  /\ Entries[3].status = "failed"

\* ---- the persisted snapshot (SpecStore)
\* what an executor without active records reads for the task id
ReadBack == GetTaskStatus(<<>>, disk, TaskId)

\* a step that changes a subtask entry also writes the record it leaves,
\* unless that write raises
MutationPersisted ==
  (Entered /\ Entries' # Entries)
  => \/ disk'[TaskId] = WrittenFile(TaskRecord')
     \/ save_fault' # save_fault

\* the file of a returned record reads back as that record
ReturnedRecordReadsBack == pc = "done" => ReadBack = TaskRecord

Answers == status_reply = NoReply /\ status_reply' # NoReply

\* C18, as claimed: the reply is the active record when the id has one,
\* whatever is persisted; otherwise the persisted snapshot when the id has a
\* file; and None only when the id has neither.
C18_StatusLookup ==
  [][Answers
     => LET id == status_reply'.id
            value == status_reply'.value
        IN /\ id \in DOMAIN active_tasks => value = active_tasks[id]
           /\ (id \notin DOMAIN active_tasks /\ id \in DOMAIN disk)
              => value # None /\ disk[id] = WrittenFile(value)
           /\ value = None
              => id \notin DOMAIN active_tasks /\ id \notin DOMAIN disk]_vars

\* C18, amended: the reply is the active record when the id has one,
\* whatever is persisted; otherwise the record of the id's file when the file
\* holds a complete snapshot; and None exactly when the id has no active
\* record and its file is missing or cannot be parsed.
C18_StatusLookupUnlessUnreadable ==
  [][Answers
     => LET id == status_reply'.id
            value == status_reply'.value
            readable == id \in DOMAIN disk /\ disk[id] # TruncatedFile
        IN /\ id \in DOMAIN active_tasks => value = active_tasks[id]
           /\ (id \notin DOMAIN active_tasks /\ readable)
              => value # None /\ disk[id] = WrittenFile(value)
           /\ value = None
              <=> (id \notin DOMAIN active_tasks /\ ~readable)]_vars

\* the reply is the RUNNING active record although the file of the id holds
\* a COMPLETED snapshot
C18_Witness ==
  /\ status_reply # NoReply
  /\ status_reply.id \in DOMAIN active_tasks
  /\ status_reply.value = active_tasks[status_reply.id]
  /\ status_reply.value.status = "running"
  /\ status_reply.id \in DOMAIN disk
  /\ disk[status_reply.id] # TruncatedFile
  /\ JsonLoad(disk[status_reply.id][2]).status = "completed"

\* ---- the runner (Spec)
\* the subtask positions without a command
NoCommand == {i \in 1..NumSubtasks : ~Subtasks[i].command}

\* no process has been created for a subtask without a command, and once
\* execute_task has returned such a subtask (its id is no other subtask's) is
\* FAILED with an error text
NoCommandShape ==
  \A i \in NoCommand :
    /\ spawned[i] = 0
    /\ (pc = "done" /\ \A j \in 1..NumSubtasks : Subtasks[j].id = Subtasks[i].id => j = i)
       => /\ invoked[i] >= 1
          /\ Entries[i].status = "failed"
          /\ Entries[i].error

\* the invocation of a subtask without a command creates no process and
\* leaves the entry of its id FAILED with an error text
NoCommandStep ==
  \A i \in NoCommand :
    invoked'[i] # invoked[i]
    => /\ spawned' = spawned
       /\ LET e == Entries'[FirstEntry(Entries', Subtasks[i].id)]
          IN e.status = "failed" /\ e.error

\* C19: a subtask without a command never has a process created for it; its
\* invocation fails before any process exists and the executor records the
\* subtask FAILED with an error text, on the plan-driven path (single task or
\* stage member), on the sequential path and on the parallel path.
C19_NoCommandNoProcess == []NoCommandShape /\ [][NoCommandStep]_vars

\* a two-member stage: the member without a command is FAILED with an error
\* and has no process, its sibling has one
C19_Witness ==
  /\ path = "deps"
  /\ pc = "join"
  /\ \E i \in NoCommand, j \in 1..NumSubtasks :
       /\ {i, j} \subseteq Members
       /\ invoked[i] = 1 /\ spawned[i] = 0
       /\ StatusOfId(Subtasks[i].id) = "failed"
       /\ Entries[FirstEntry(Entries, Subtasks[i].id)].error
       /\ spawned[j] = 1

\* ---- planning rounds (SpecRounds)
RECURSIVE Depth(_, _)
\* the round in which a node of an acyclic graph is ready: one more than the
\* latest round of its predecessors
Depth(G, t) ==
  LET before == {Depth(G, p) : p \in Predecessors(G, t)}
  IN IF before = {} THEN 1 ELSE 1 + CHOOSE d \in before : \A e \in before : e <= d

\* the one stage of the plan that holds id
StageOf(stages, id) == CHOOSE k \in DOMAIN stages : id \in Range(stages[k])

\* C20: in a returned plan every sequential-mode task is alone in its stage;
\* the parallel-mode tasks that become ready in the same round are, all of
\* them and only they, the members of one stage, which comes after the
\* stages of the sequential tasks of that round; the stages of a round come
\* before those of the next round.  The diamond 1 <- {2, 3} <- 4 with 1 and 4
\* sequential, 2 and 3 parallel, is planned as [[1], [2, 3], [4]], the middle
\* stage in either order.
C20_RoundsSequentialThenParallel ==
  result.kind = "plan"
  => LET G == dependency_graph
         stages == result.stages
         Par(t) == ExecutionModeOf(G, t) = "parallel"
     IN /\ Range(Flatten(stages)) = G.nodes
        /\ \A t \in G.nodes :
             /\ ~Par(t) => stages[StageOf(stages, t)] = <<t>>
             /\ Par(t) => Range(stages[StageOf(stages, t)]) =
                            {u \in G.nodes : Par(u) /\ Depth(G, u) = Depth(G, t)}
        /\ \A t, u \in G.nodes :
             /\ Depth(G, t) < Depth(G, u) => StageOf(stages, t) < StageOf(stages, u)
             /\ (Depth(G, t) = Depth(G, u) /\ ~Par(t) /\ Par(u))
                => StageOf(stages, t) < StageOf(stages, u)
        /\ (/\ G.nodes = {1, 2, 3, 4}
            /\ G.edges = {<<1, 2>>, <<1, 3>>, <<2, 4>>, <<3, 4>>}
            /\ ~Par(1) /\ Par(2) /\ Par(3) /\ ~Par(4))
           => stages \in {<<<<1>>, <<2, 3>>, <<4>>>>, <<<<1>>, <<3, 2>>, <<4>>>>}

\* the plan of the diamond of the module's Test 4
C20_Witness ==
  /\ given_ids = {1, 2, 3, 4}
  /\ given_deps = {<<1, 2>>, <<1, 3>>, <<2, 4>>, <<3, 4>>}
  /\ dependency_graph.mode = <<"sequential", "parallel", "parallel", "sequential">>
  /\ result.kind = "plan"
  /\ result.stages = <<<<1>>, <<2, 3>>, <<4>>>>

\* ---- sequential-only lists (SpecRounds)

\* every descriptor given so far is sequential-mode
AllSequential == \A t \in given_ids : dependency_graph.mode[t] = "sequential"

\* C21: for an acyclic list of n descriptors (distinct ids) that are all
\* sequential-mode, create_execution_plan returns a plan of exactly n stages,
\* each of exactly one member.
C21_SequentialListOneStageEach ==
  (result.kind # "none" /\ ~DeclaredCycle(given_deps) /\ AllSequential)
  => /\ result.kind = "plan"
     /\ Len(result.stages) = nAdded
     /\ \A k \in DOMAIN result.stages : Len(result.stages[k]) = 1

\* ---- the planning loop (SpecPlan)

\* C22: for a graph that validate_dependencies accepts, every round of the
\* planning loop finds a ready task, whatever tasks remain; the "no ready
\* task" error is not raised and the loop ends with every node in the plan.
C22_PlanLoopTerminates ==
  ValidateDependencies(dependency_graph) = <<>>
  => /\ \A remaining \in SUBSET dependency_graph.nodes :
          remaining # {} => ReadyTasks(dependency_graph, remaining) # {}
     /\ PlanningError \notin PlanOutcomes(dependency_graph)
     /\ result.kind # "none"
        => /\ result.kind = "plan"
           /\ Range(Flatten(result.stages)) = dependency_graph.nodes

\* a chain 1 <- 2 <- 3 planned in three rounds
C22_Witness ==
  /\ result.kind = "plan"
  /\ dependency_graph.edges = {<<1, 2>>, <<2, 3>>}
  /\ Len(result.stages) = 3

\* ---- validation (SpecPlan)

\* a validate_dependencies() call made on the manager directly
ValidateCall == mgr_pc = "idle" /\ mgr_pc' = "idle" /\ errors' # NotValidated

\* the list a validate_dependencies call returned is the list the next call
\* on the same graph returns
ValidationRepeats ==
  errors # NotValidated => ValidateDependencies(dependency_graph) = errors

\* a validate_dependencies call leaves nodes, edges and execution modes as
\* they were, and on a graph without defects returns the empty list
ValidationReadOnly ==
  ValidateCall
  => /\ dependency_graph' = dependency_graph
     /\ ValidateDependencies(dependency_graph') = ValidateDependencies(dependency_graph)
     /\ (~FindCycle(dependency_graph) /\ MissingPairs(dependency_graph) = {})
        => errors' = <<>>

\* C23: validate_dependencies is read-only and idempotent: a call leaves the
\* graph's nodes, edges and execution-mode attributes unchanged, and on a
\* valid graph every call, the first and any later one, returns the empty list.
C23_ValidationIdempotent == []ValidationRepeats /\ [][ValidationReadOnly]_vars

\* a valid graph (1 <- 2, one parallel task) validated directly, not planned
C23_Witness ==
  /\ mgr_pc = "idle"
  /\ errors = <<>>
  /\ result = NoResult
  /\ dependency_graph.edges = {<<1, 2>>}
  /\ dependency_graph.mode = <<"sequential", "parallel">>

\* ---- repeated ids (SpecPlan)

\* this step is add_task(id, deps, m), from create_execution_plan or direct
AddTaskCall(id, deps, m) ==
  /\ nAdded' = nAdded + 1
  /\ dependency_graph' = AddTask(dependency_graph, id, deps, m)
  /\ given_ids' = given_ids \cup {id}
  /\ given_deps' = given_deps \cup {<<d, id>> : d \in deps}

\* C24: when a descriptor repeats the id of an earlier one, the node has the
\* execution mode and exactly the dependency set of the later descriptor;
\* dependencies only the earlier descriptor declared are discarded.
C24_LaterDescriptorReplaces ==
  [][\A id \in given_ids, deps \in DepSets, m \in Modes :
       AddTaskCall(id, deps, m)
       => /\ dependency_graph'.mode[id] = m
          /\ Predecessors(dependency_graph', id) = deps]_vars

\* C24 (amended): when a descriptor repeats the id of an earlier one, the
\* node has the execution mode of the later descriptor and the dependencies
\* of both: the later descriptor's dependencies are added to those the node
\* already had, and no other node's mode or dependencies change.
C24_LaterDescriptorMerges ==
  [][\A id \in given_ids, deps \in DepSets, m \in Modes :
       AddTaskCall(id, deps, m)
       => /\ dependency_graph'.mode[id] = m
          /\ Predecessors(dependency_graph', id) =
               Predecessors(dependency_graph, id) \cup deps
          /\ \A n \in dependency_graph.nodes \ {id} :
               /\ dependency_graph'.mode[n] = dependency_graph.mode[n]
               /\ Predecessors(dependency_graph', n) = Predecessors(dependency_graph, n)]_vars

\* id 1 described twice, first sequential depending on 2, then parallel
\* depending on 3: the node is parallel and depends on both
C24_Witness ==
  /\ nAdded = 2
  /\ given_ids = {1}
  /\ given_deps = {<<2, 1>>, <<3, 1>>}
  /\ dependency_graph.mode[1] = "parallel"
  /\ Predecessors(dependency_graph, 1) = {2, 3}

\* ---- subtask updates (SpecUpdate)

\* everything of a task's record but its subtask entries
TaskLevel(r) == [status |-> r.status, executionMode |-> r.executionMode,
                 endTime |-> r.endTime, error |-> r.error]

\* the step changes, of the records and files, at most the entries with id
\* subtask_id of the record of task_id, and the file of task_id
OnlyEntry(task_id, subtask_id) ==
  /\ \A t \in DOMAIN active_tasks \ {task_id} : active_tasks'[t] = active_tasks[t]
  /\ DOMAIN disk' = DOMAIN disk
  /\ \A t \in DOMAIN disk \ {task_id} : disk'[t] = disk[t]
  /\ task_id \in DOMAIN active_tasks
     => LET old == active_tasks[task_id]
            new == active_tasks'[task_id]
        IN /\ TaskLevel(new) = TaskLevel(old)
           /\ DOMAIN new.subtasks = DOMAIN old.subtasks
           /\ \A j \in DOMAIN old.subtasks :
                /\ new.subtasks[j].id = old.subtasks[j].id
                /\ old.subtasks[j].id # subtask_id => new.subtasks[j] = old.subtasks[j]
           /\ disk'[task_id] = WrittenFile(new)
  /\ task_id \notin DOMAIN active_tasks
     => active_tasks' = active_tasks /\ disk' = disk

\* C25: a subtask status update changes only the entry of the named subtask
\* of the named task's record: the other entries, the task-level fields and
\* the records and files of the other task ids stay as they were; naming a
\* task id without an active record changes nothing and writes no file.
C25_UpdateTouchesOneEntry ==
  [][DOMAIN active_tasks' = DOMAIN active_tasks
     => \E task_id \in TaskNames, subtask_id \in TaskIds :
          OnlyEntry(task_id, subtask_id)]_vars

\* the first subtask of "task" is COMPLETED with its output, the second still
\* PENDING, and the record of "other" is as execute_task created it
C25_Witness ==
  /\ DOMAIN active_tasks = TaskNames
  /\ active_tasks["task"].subtasks[1].status = "completed"
  /\ active_tasks["task"].subtasks[1].output
  /\ active_tasks["task"].subtasks[2] =
       [id |-> 2, status |-> "pending", output |-> FALSE, error |-> FALSE]
  /\ \A j \in 1..2 : active_tasks["other"].subtasks[j].status = "pending"
  /\ disk["task"] = WrittenFile(active_tasks["task"])

\* ---- concurrent snapshot writes (SpecWrites)

\* what the last read of the snapshot file returned
LastRead == status_reply.value

\* C26: with the siblings of a parallel stage writing the snapshot
\* concurrently, the snapshot never regresses: once a read of the file has
\* shown a subtask COMPLETED or FAILED, no later read shows it PENDING or RUNNING.
C26_SnapshotNeverRegresses ==
  (status_reply # NoReply /\ LastRead # None)
  => \A i \in seen_done : LastRead.subtasks[i].status \in {"completed", "failed"}

\* ---- sequential-mode subtasks (Spec)

\* the ids whose entry is RUNNING, and the execution mode the descriptor of
\* an id declares (the last descriptor of the id, as the graph keeps it)
RunningIds == {x \in SubtaskIds : StatusOfId(x) = "running"}
ModeOfId(x) == Subtasks[SubtaskMap(Subtasks, x)].executionMode

\* C27, as claimed: on every path of execute_task, plan-driven or fallback,
\* a sequential-mode subtask is never RUNNING together with another subtask.
C27_SequentialNeverConcurrent ==
  TaskId \in DOMAIN active_tasks
  => \A x \in RunningIds : ModeOfId(x) = "sequential" => RunningIds = {x}

\* C27, amended: a sequential-mode subtask is never RUNNING together with
\* another subtask while the plan is executed or the sequential fallback
\* runs; the parallel fallback, which the task's own executionMode selects,
\* is excepted.
C27_SequentialAloneOutsideParallelFallback ==
  (TaskId \in DOMAIN active_tasks /\ path # "parallel")
  => \A x \in RunningIds : ModeOfId(x) = "sequential" => RunningIds = {x}

\* plan-driven: two sequential subtasks without dependencies between them,
\* the first RUNNING with its process, the second kept PENDING
C27_Witness ==
  /\ path = "deps"
  /\ NumSubtasks = 2
  /\ Subtasks[1].id = 1 /\ Subtasks[2].id = 2
  /\ \A i \in 1..2 : Subtasks[i].executionMode = "sequential" /\ Subtasks[i].dependencies = {}
  /\ \E i, j \in 1..2 :
       /\ Entries[i].status = "running" /\ spawned[i] = 1
       /\ Entries[j].status = "pending"

\* ---- the returned status (Spec)

DistinctIds == Cardinality(SubtaskIds) = NumSubtasks

C30_StartedTaskIsFound ==
  [][(Answers /\ pc # "unused" /\ status_reply'.id = TaskId)
     => status_reply'.value # None]_vars

====
